---- MODULE Spec2Model ----
(***************************************************************************)
(* A model of the beam language workbench (src/src/logic): the grammar     *)
(* notation reader and writer (grammar/load.rs, grammar/save.rs,           *)
(* grammar/utils.rs) and the recursive-descent backtracking parser         *)
(* (parser.rs).                                                            *)
(*                                                                         *)
(* Text is modelled character by character: a Rust String is a sequence of *)
(* one-character strings, so that splitting, trimming, quoting and         *)
(* bracket search are computed the way the code computes them.  Option<T>  *)
(* is a sequence of length 0 (None) or 1 (Some), and Result<T, String> a   *)
(* record [ok, val, err].  A TLA+ string cannot hold the membership sign   *)
(* U+2208, so the texts of the model write it as U+03F5.                   *)
(***************************************************************************)
EXTENDS Integers, Sequences, FiniteSets, TLC

None == <<>>

Some(x) == <<x>>

IsSome(o) == Len(o) = 1

Ok(v) == [ok |-> TRUE, val |-> <<v>>, err |-> ""]

Err(e) == [ok |-> FALSE, val |-> <<>>, err |-> e]

(***************************************************************************)
(* The str methods of the Rust standard library that the code calls.       *)
(***************************************************************************)

\* char::is_whitespace, restricted to the characters of the model's texts
Whitespace == {" ", "\t", "\n", "\r"}

Digits == {"0", "1", "2", "3", "4", "5", "6", "7", "8", "9"}

Letters ==
    {"a", "b", "c", "d", "e", "f", "g", "h", "i", "j", "k", "l", "m",
     "n", "o", "p", "q", "r", "s", "t", "u", "v", "w", "x", "y", "z",
     "A", "B", "C", "D", "E", "F", "G", "H", "I", "J", "K", "L", "M",
     "N", "O", "P", "Q", "R", "S", "T", "U", "V", "W", "X", "Y", "Z"}

\* char::is_alphanumeric
is_alphanumeric(c) == c \in Letters \cup Digits

SetMin(S) == CHOOSE i \in S : \A j \in S : i <= j

SetMax(S) == CHOOSE i \in S : \A j \in S : i >= j

RECURSIVE trim_start(_)
trim_start(s) ==
    IF Len(s) > 0 /\ Head(s) \in Whitespace THEN trim_start(Tail(s)) ELSE s

RECURSIVE trim_end(_)
trim_end(s) ==
    IF Len(s) > 0 /\ s[Len(s)] \in Whitespace
    THEN trim_end(SubSeq(s, 1, Len(s) - 1))
    ELSE s

trim(s) == trim_end(trim_start(s))

starts_with(s, p) == Len(p) <= Len(s) /\ SubSeq(s, 1, Len(p)) = p

ends_with(s, p) ==
    Len(p) <= Len(s) /\ SubSeq(s, Len(s) - Len(p) + 1, Len(s)) = p

\* the positions (1-based) at which p occurs in s
Occurrences(s, p) ==
    {i \in 1..(Len(s) - Len(p) + 1) : SubSeq(s, i, i + Len(p) - 1) = p}

\* str::find: the first position of p in s, 0 for None
find(s, p) == IF Occurrences(s, p) = {} THEN 0 ELSE SetMin(Occurrences(s, p))

\* str::rfind: the last position of p in s, 0 for None
rfind(s, p) == IF Occurrences(s, p) = {} THEN 0 ELSE SetMax(Occurrences(s, p))

contains(s, p) == Occurrences(s, p) # {}

\* the occurrences of sep in s that str::split cuts at: those met when s is
\* searched from the left and the search goes on behind each occurrence.
\* Occurrences overlap only in a run of a repeated character (the patterns
\* of the code are one character, or "\n\n"), where every Len(sep)-th is
\* taken, counted from the start of the run
cuts_among(occurrences, width) ==
    {i \in occurrences :
        (i - SetMin({p \in 1..i : \A q \in p..i : q \in occurrences})) % width = 0}

\* the cuts of str::split, the occurrences being searched once
Cuts(s, sep) ==
    CHOOSE cuts \in {cuts_among(occurrences, Len(sep)) :
                        occurrences \in {Occurrences(s, sep)}} : TRUE

\* the j-th element of a set of numbers, from the least
Nth(S, j) == CHOOSE c \in S : Cardinality({d \in S : d <= c}) = j

\* the pieces of s between the cuts
pieces_between(s, cuts, width) ==
    [j \in 1..(Cardinality(cuts) + 1) |->
        SubSeq(s,
               IF j = 1 THEN 1 ELSE Nth(cuts, j - 1) + width,
               IF j = Cardinality(cuts) + 1 THEN Len(s) ELSE Nth(cuts, j) - 1)]

\* str::split(pattern): the pieces between the occurrences, empty ones kept
split(s, sep) ==
    CHOOSE pieces \in {pieces_between(s, cuts, Len(sep)) : cuts \in {Cuts(s, sep)}} : TRUE

\* str::splitn(2, pattern)
splitn2(s, sep) ==
    LET i == find(s, sep)
    IN  IF i = 0
        THEN <<s>>
        ELSE <<SubSeq(s, 1, i - 1), SubSeq(s, i + Len(sep), Len(s))>>

\* str::split_whitespace: the maximal runs of non-whitespace characters
RECURSIVE split_whitespace(_)
split_whitespace(s) ==
    LET t == trim_start(s)
        ws == {i \in 1..Len(t) : t[i] \in Whitespace}
        e == IF ws = {} THEN Len(t) + 1 ELSE SetMin(ws)
    IN  IF Len(t) = 0
        THEN <<>>
        ELSE <<SubSeq(t, 1, e - 1)>> \o split_whitespace(SubSeq(t, e, Len(t)))

\* str::trim_matches(c): every leading and every trailing c is removed
RECURSIVE trim_start_matches(_, _)
trim_start_matches(s, c) ==
    IF Len(s) > 0 /\ Head(s) = c THEN trim_start_matches(Tail(s), c) ELSE s

RECURSIVE trim_end_matches(_, _)
trim_end_matches(s, c) ==
    IF Len(s) > 0 /\ s[Len(s)] = c
    THEN trim_end_matches(SubSeq(s, 1, Len(s) - 1), c)
    ELSE s

trim_matches(s, c) == trim_end_matches(trim_start_matches(s, c), c)

\* [T]::join(sep)
RECURSIVE join(_, _)
join(ss, sep) ==
    IF Len(ss) = 0 THEN <<>>
    ELSE IF Len(ss) = 1 THEN ss[1]
    ELSE ss[1] \o sep \o join(Tail(ss), sep)

\* Iterator::map on a sequence
map(ss, F(_)) == [i \in 1..Len(ss) |-> F(ss[i])]

\* Vec::contains
vec_contains(v, x) == \E i \in 1..Len(v) : v[i] = x

\* HashMap::insert, HashMap::entry(k).or_default(): maps are functions
map_insert(m, k, v) == [x \in DOMAIN m \cup {k} |-> IF x = k THEN v ELSE m[x]]

map_get(m, k) == IF k \in DOMAIN m THEN Some(m[k]) ELSE None

EmptyMap == [x \in {} |-> <<>>]

\* the order of str and String: lexicographic in the code points
CharOrder ==
    <<"\t", "\n", "\r", " ", "\"", "#", "'", "(", ")", "*", "+", ",", "-", ".",
      "/", "0", "1", "2", "3", "4", "5", "6", "7", "8", "9", ":", "<", "=",
      ">", "@", "A", "B", "C", "D", "E", "F", "G", "H", "I", "J", "K", "L",
      "M", "N", "O", "P", "Q", "R", "S", "T", "U", "V", "W", "X", "Y", "Z",
      "[", "\\", "]", "^", "_", "a", "b", "c", "d", "e", "f", "g", "h", "i",
      "j", "k", "l", "m", "n", "o", "p", "q", "r", "s", "t", "u", "v", "w",
      "x", "y", "z", "|">>

ord(c) == CHOOSE i \in 1..Len(CharOrder) : CharOrder[i] = c

RECURSIVE str_lt(_, _)
str_lt(a, b) ==
    IF Len(b) = 0 THEN FALSE
    ELSE IF Len(a) = 0 THEN TRUE
    ELSE IF Head(a) = Head(b) THEN str_lt(Tail(a), Tail(b))
    ELSE ord(Head(a)) < ord(Head(b))

\* Vec::sort of a set of distinct strings (the keys of a HashMap)
RECURSIVE sorted(_)
sorted(S) ==
    IF S = {} THEN <<>>
    ELSE LET m == CHOOSE x \in S : \A y \in S \ {x} : str_lt(x, y)
         IN  <<m>> \o sorted(S \ {m})

(***************************************************************************)
(* grammar/mod.rs: Symbol, Production, Grammar.                            *)
(***************************************************************************)

\* Symbol::new
Symbol_new(value) == [value |-> value, binding |-> None]

\* Symbol::with_binding
Symbol_with_binding(value, binding) == [value |-> value, binding |-> Some(binding)]

\* Grammar::new: Self::default()
Grammar_new ==
    [productions |-> EmptyMap, typing_rules |-> EmptyMap, special_tokens |-> <<>>]

\* Grammar::add_special_token
add_special_token(g, token) ==
    IF ~vec_contains(g.special_tokens, token)
    THEN [g EXCEPT !.special_tokens = Append(@, token)]
    ELSE g

\* add_typing_rule that keeps the rule a name already has
add_typing_rule_keep_first(g, rule) ==
    IF rule.name \in DOMAIN g.typing_rules THEN g
    ELSE [g EXCEPT !.typing_rules = map_insert(@, rule.name, rule)]

\* Grammar::add_typing_rule
add_typing_rule(g, rule) ==
    [g EXCEPT !.typing_rules = map_insert(@, rule.name, rule)]

(***************************************************************************)
(* grammar/utils.rs                                                        *)
(***************************************************************************)

is_regex(pattern) ==
    starts_with(pattern, <<"/">>) /\ ends_with(pattern, <<"/">>) /\ Len(pattern) > 2

parse_production(line) ==
    LET parts == splitn2(line, <<":", ":", "=">>)
    IN  IF Len(parts) # 2
        THEN Err("Invalid production line")
        ELSE Ok(<<trim(parts[1]), trim(parts[2])>>)

\* utils::parse_nonterminal: "Lambda(lambda)" -> ("Lambda", Some("lambda"))
parse_nonterminal(nt_str) ==
    LET open_paren == find(nt_str, <<"(">>)
        close_paren == rfind(nt_str, <<")">>)
        name == trim(SubSeq(nt_str, 1, open_paren - 1))
        rule_name == trim(SubSeq(nt_str, open_paren + 1, close_paren - 1))
    IN  IF open_paren # 0 /\ close_paren # 0 /\ close_paren > open_paren
        THEN Ok(<<name, IF Len(rule_name) = 0 THEN None ELSE Some(rule_name)>>)
        ELSE Ok(<<trim(nt_str), None>>)

NonEmpty(s) == Len(s) > 0

\* rhs.split('|').map(str::trim).filter(|alt| !alt.is_empty())
rhs_alternatives(rhs) == SelectSeq(map(split(rhs, <<"|">>), trim), NonEmpty)

\* the body of the inner loop of parse_rhs: one whitespace-separated token
parse_rhs_token(token) ==
    LET open_bracket == find(token, <<"[">>)
        close_bracket == rfind(token, <<"]">>)
    IN  IF is_regex(token) THEN Symbol_new(token)
        ELSE IF open_bracket # 0 /\ close_bracket # 0 /\ close_bracket > open_bracket
        THEN Symbol_with_binding(SubSeq(token, 1, open_bracket - 1),
                                 SubSeq(token, open_bracket + 1, close_bracket - 1))
        ELSE Symbol_new(token)

parse_rhs_alt(alt) == map(split_whitespace(alt), parse_rhs_token)

parse_rhs(rhs) == Ok(map(rhs_alternatives(rhs), parse_rhs_alt))

is_quoted_token(sym) ==
    \/ starts_with(sym, <<"'">>) /\ ends_with(sym, <<"'">>)
    \/ starts_with(sym, <<"\"">>) /\ ends_with(sym, <<"\"">>)

\* the loop of special_tokens over the tokens syms[i..], found so far in `found`
RECURSIVE special_tokens_scan(_, _)
special_tokens_scan(syms, found) ==
    IF Len(syms) = 0 THEN found
    ELSE LET sym == Head(syms)
             sym_stripped == trim_matches(trim_matches(sym, "'"), "\"")
         IN  IF is_quoted_token(sym) /\ ~vec_contains(found, sym_stripped)
             THEN special_tokens_scan(Tail(syms), Append(found, sym_stripped))
             ELSE special_tokens_scan(Tail(syms), found)

RECURSIVE concat(_)
concat(ss) == IF Len(ss) = 0 THEN <<>> ELSE Head(ss) \o concat(Tail(ss))

special_tokens(rhs) ==
    special_tokens_scan(concat(map(rhs_alternatives(rhs), split_whitespace)), <<>>)

\* Regex::new(r"\(([^)]+)\)").captures(line): the leftmost "(", followed by
\* one or more characters other than ")" and then by ")"; None when no
\* position matches, otherwise capture group 1
name_regex_captures(line) ==
    LET closing(i) == {j \in (i + 1)..Len(line) : line[j] = ")"}
        starts == {i \in 1..Len(line) :
                      /\ line[i] = "("
                      /\ closing(i) # {}
                      /\ SetMin(closing(i)) >= i + 2}
        i0 == SetMin(starts)
    IN  IF starts = {} THEN None
        ELSE Some(SubSeq(line, i0 + 1, SetMin(closing(i0)) - 1))

(***************************************************************************)
(* grammar/load.rs: Grammar::load                                          *)
(***************************************************************************)

DefinedAs == <<":", ":", "=">>

Dashes == <<"-", "-", "-">>

is_content_line(line) == Len(line) > 0 /\ ~starts_with(line, <<"/", "/">>)

\* block.lines().map(str::trim).filter(non-empty, not a comment); the lines
\* are trimmed, so the "\r" that str::lines strips is stripped here as well
block_lines(block) == SelectSeq(map(split(block, <<"\n">>), trim), is_content_line)

has_content(block) == Len(trim(block)) > 0

\* input.split("\n\n").filter(|b| !b.trim().is_empty())
input_blocks(input) == SelectSeq(split(input, <<"\n", "\n">>), has_content)

RECURSIVE add_special_tokens(_, _)
add_special_tokens(g, syms) ==
    IF Len(syms) = 0 THEN g
    ELSE add_special_tokens(add_special_token(g, Head(syms)), Tail(syms))

\* push_productions with every production put before the ones already there
RECURSIVE push_productions_front(_, _, _, _)
push_productions_front(g, name, rule_name, alts) ==
    IF Len(alts) = 0 THEN g
    ELSE LET production == [rule |-> rule_name, rhs |-> Head(alts)]
             old == IF name \in DOMAIN g.productions THEN g.productions[name] ELSE <<>>
             g1 == [g EXCEPT !.productions = map_insert(@, name, <<production>> \o old)]
         IN  push_productions_front(g1, name, rule_name, Tail(alts))

\* grammar.productions.entry(name).or_default().push(production), for each
\* alternative of one `::=` line with its continuation lines
RECURSIVE push_productions(_, _, _, _)
push_productions(g, name, rule_name, alts) ==
    IF Len(alts) = 0 THEN g
    ELSE LET production == [rule |-> rule_name, rhs |-> Head(alts)]
             old == IF name \in DOMAIN g.productions THEN g.productions[name] ELSE <<>>
             g1 == [g EXCEPT !.productions = map_insert(@, name, Append(old, production))]
         IN  push_productions(g1, name, rule_name, Tail(alts))

\* the while loop of a production block, from line i (1-based) on; the
\* grammar of one iteration is computed before the next iteration begins
RECURSIVE load_production_block(_, _, _)
load_production_block(g, lines, i) ==
    IF i > Len(lines) THEN Ok(g)
    ELSE IF contains(lines[i], DefinedAs)
    THEN LET stop == {j \in (i + 1)..Len(lines) : ~starts_with(lines[j], <<"|">>)}
             next == IF stop = {} THEN Len(lines) + 1 ELSE SetMin(stop)
             production_str == join(SubSeq(lines, i, next - 1), <<" ">>)
             lr == parse_production(production_str)
             lhs_str == lr.val[1][1]
             rhs_str == lr.val[1][2]
             nt == parse_nonterminal(lhs_str)
             alts == parse_rhs(rhs_str)
             g1 == add_special_tokens(g, special_tokens(rhs_str))
             g2 == push_productions(g1, nt.val[1][1], nt.val[1][2], alts.val[1])
         IN  IF ~lr.ok THEN Err(lr.err)
             ELSE IF ~nt.ok THEN Err(nt.err)
             ELSE IF ~alts.ok THEN Err(alts.err)
             ELSE CHOOSE r \in {load_production_block(pushed, lines, next) :
                                   pushed \in {g2}} : TRUE
    ELSE load_production_block(g, lines, i + 1)

\* the typing-rule branch of Grammar::load: the block has a line with "---"
load_rule_block(g, lines) ==
    LET dash_idx == SetMin({i \in 1..Len(lines) : contains(lines[i], Dashes)})
        premises == IF dash_idx > 1 THEN lines[dash_idx - 1] ELSE <<>>
        cap == name_regex_captures(lines[dash_idx])
        name == trim(cap[1])
        conclusion == lines[dash_idx + 1]
        rule == [name |-> name, premises |-> premises, conclusion |-> conclusion]
    IN  IF cap = None THEN Err("No rule name found in dash line")
        ELSE IF dash_idx + 1 > Len(lines) THEN Err("No conclusion after dash line")
        ELSE Ok(add_typing_rule(g, rule))

\* load_block that looks for a dashed line before it looks for `::=`
load_block_dashes_first(g, block) ==
    LET lines == block_lines(block)
    IN  IF Len(lines) = 0 THEN Ok(g)
        ELSE IF \E i \in 1..Len(lines) : contains(lines[i], Dashes)
        THEN load_rule_block(g, lines)
        ELSE IF \E i \in 1..Len(lines) : contains(lines[i], DefinedAs)
        THEN load_production_block(g, lines, 1)
        ELSE Ok(g)

load_block(g, block) ==
    LET lines == block_lines(block)
    IN  IF Len(lines) = 0 THEN Ok(g)
        ELSE IF \E i \in 1..Len(lines) : contains(lines[i], DefinedAs)
        THEN load_production_block(g, lines, 1)
        ELSE IF \E i \in 1..Len(lines) : contains(lines[i], Dashes)
        THEN load_rule_block(g, lines)
        ELSE Ok(g)

\* the for loop of Grammar::load over the blocks; the grammar of one
\* iteration is computed before the next iteration begins
RECURSIVE load_blocks(_, _)
load_blocks(g, blocks) ==
    IF Len(blocks) = 0 THEN Ok(g)
    ELSE CHOOSE loaded_blocks \in
             {IF ~r.ok THEN r ELSE load_blocks(r.val[1], Tail(blocks)) :
                 r \in {load_block(g, Head(blocks))}} : TRUE

\* Grammar::load
Grammar_load(input) == load_blocks(Grammar_new, input_blocks(input))

(***************************************************************************)
(* check/parse.rs and grammar/typing.rs: the structure of a typing rule.   *)
(* Grammar::load keeps the premises and the conclusion as the text of      *)
(* their lines; TypingRule::new is what turns that text into the Premise   *)
(* and Conclusion values that save.rs formats.                             *)
(***************************************************************************)

RELATION_SYMBOLS == {"=", "<", "ϵ", "⊆", "⊂", "⊃", "⊇", ":"}

\* the `?` of Rust: an Err is returned as it is, the value of an Ok goes on
Try(r, F(_)) == IF r.ok THEN F(r.val[1]) ELSE r

\* the (variable, type) of the parts of one extension split at ':'
extension_of(ext_parts) ==
    IF Len(ext_parts) # 2
    THEN Err("Invalid context extension format, expected 'var:type': {}")
    ELSE Ok([variable |-> ext_parts[1], type_expr |-> ext_parts[2]])

\* the loop of parse_context_extensions over the parts after the base
RECURSIVE context_extensions(_, _)
context_extensions(parts, extensions) ==
    IF Len(parts) = 0 THEN Ok(extensions)
    ELSE IF Len(trim(Head(parts))) = 0
    THEN context_extensions(Tail(parts), extensions)
    ELSE Try(extension_of(map(split(trim(Head(parts)), <<":">>), trim)),
             LAMBDA e : context_extensions(Tail(parts), Append(extensions, e)))

\* extensions_of without the test of the base
extensions_of_any_base(parts) ==
    Try(context_extensions(Tail(parts), <<>>),
        LAMBDA extensions : Ok(<<trim(parts[1]), extensions>>))

\* parse_context_extensions on the parts of the context split at ','
extensions_of(parts) ==
    IF trim(parts[1]) # <<"Γ">>
    THEN Err("Context must start with 'Γ', got '{}'")
    ELSE Try(context_extensions(Tail(parts), <<>>),
             LAMBDA extensions : Ok(<<trim(parts[1]), extensions>>))

\* "Γ,x:τ₁,y:τ₂" -> the base Γ and the extensions (x, τ₁), (y, τ₂)
parse_context_extensions(context_str) ==
    extensions_of(split(trim(context_str), <<",">>))

\* parse_judgement after the extensions: the expression and the type
judgement_of(extensions, parts, expr_parts) ==
    IF Len(parts) # 2
    THEN Err("Invalid typing judgment format: {}")
    ELSE IF Len(expr_parts) # 2
    THEN Err("Invalid typing judgment format: {}")
    ELSE Ok([extensions |-> extensions,
             expression |-> expr_parts[1],
             type_expr |-> expr_parts[2]])

\* parse_judgement on the parts of the judgement split at '⊢'
judgement_parts(parts) ==
    Try(IF contains(parts[1], <<",">>)
        THEN Try(parse_context_extensions(parts[1]), LAMBDA c : Ok(c[2]))
        ELSE Ok(<<>>),
        LAMBDA extensions :
            judgement_of(extensions, parts,
                         IF Len(parts) >= 2
                         THEN map(split(parts[2], <<":">>), trim)
                         ELSE <<>>))

parse_judgement(judgment_str) ==
    judgement_parts(map(split(judgment_str, <<"⊢">>), trim))

\* parse_membership on the parts of the premise split at '∈'
membership_of(parts) ==
    IF Len(parts) # 2
    THEN Err("Invalid membership format: {}")
    ELSE Ok(<<parts[1], parts[2]>>)

parse_membership(membership_str) ==
    membership_of(map(split(membership_str, <<"ϵ">>), trim))

is_relation_symbol(c) == c \in RELATION_SYMBOLS

not_relation_symbol(c) == c \notin RELATION_SYMBOLS

\* the loop of parse_type_relation over the characters, from the index of
\* the first relation symbol (Len + 1 without one): <<left, right, relation>>.
\* `relation` gets every relation symbol; of the other characters, `left`
\* gets those met while `relation` is empty and `right` those met later
type_relation_scan(chars, first) ==
    <<SubSeq(chars, 1, first - 1),
      SelectSeq(SubSeq(chars, first, Len(chars)), not_relation_symbol),
      SelectSeq(chars, is_relation_symbol)>>

\* parse_type_relation after its loop
type_relation_of(scanned) ==
    IF Len(scanned[3]) = 0
    THEN Err("No relation symbol found in: {}")
    ELSE IF Len(scanned[1]) = 0 \/ Len(scanned[2]) = 0
    THEN Err("Invalid type relation format: {}")
    ELSE Ok(<<trim(scanned[1]), trim(scanned[2]), scanned[3]>>)

parse_type_relation(relation_str) ==
    type_relation_of(
        type_relation_scan(relation_str,
            SetMin({i \in 1..Len(relation_str) : relation_str[i] \in RELATION_SYMBOLS}
                   \cup {Len(relation_str) + 1})))

TYPE_CHARS ==
    Letters \cup Digits
    \cup {"_", "λ", "τ", "→", "₁", "₂", "₃", "₄", "₅", "₆", "₇", "₈", "₉", "₀", " "}

validate_type_expr(expr) ==
    Len(expr) > 0 /\ \A i \in 1..Len(expr) : expr[i] \in TYPE_CHARS

\* TypingRule::parse_premise on the trimmed text
premise_of(premise_str) ==
    IF starts_with(premise_str, <<"Γ">>) /\ contains(premise_str, <<"⊢">>)
    THEN Try(parse_judgement(premise_str),
             LAMBDA j : Ok([kind |-> "Judgment", judgment |-> j]))
    ELSE IF contains(premise_str, <<"ϵ">>)
    THEN Try(parse_membership(premise_str),
             LAMBDA m : Ok([kind |-> "Membership", variable |-> m[1],
                            context |-> m[2]]))
    ELSE IF \E i \in 1..Len(premise_str) : premise_str[i] \in RELATION_SYMBOLS
    THEN Try(parse_type_relation(premise_str),
             LAMBDA r : Ok([kind |-> "TypeRelation", left_type |-> r[1],
                            right_type |-> r[2], relation |-> r[3]]))
    ELSE Err("Unknown premise format: {}")

\* TypingRule::parse_premise
parse_premise(str) == premise_of(trim(str))

\* str::trim_start_matches with a string pattern
RECURSIVE trim_start_matches_str(_, _)
trim_start_matches_str(s, p) ==
    IF starts_with(s, p)
    THEN trim_start_matches_str(SubSeq(s, Len(p) + 1, Len(s)), p)
    ELSE s

\* TypingRule::parse_conclusion on the trimmed text
conclusion_of(conclusion_str) ==
    IF starts_with(conclusion_str, <<"Γ", "(">>)
    THEN Ok([kind |-> "ContextLookup",
             var |-> trim_end_matches(
                         trim_start_matches_str(conclusion_str, <<"Γ", "(">>), ")")])
    ELSE IF contains(conclusion_str, <<"⊢">>)
    THEN Try(parse_judgement(conclusion_str),
             LAMBDA j : Ok([kind |-> "Judgment", judgment |-> j]))
    ELSE IF validate_type_expr(conclusion_str)
    THEN Ok([kind |-> "TypeValue", value |-> conclusion_str])
    ELSE Err("Invalid conclusion format: {}")

\* TypingRule::parse_conclusion
parse_conclusion(str) == conclusion_of(trim(str))

\* the collect of TypingRule::new over the premises: the first Err, or all of them
RECURSIVE collect_premises(_, _)
collect_premises(strs, premises) ==
    IF Len(strs) = 0 THEN Ok(premises)
    ELSE Try(parse_premise(Head(strs)),
             LAMBDA premise : collect_premises(Tail(strs), Append(premises, premise)))

\* TypingRule::new
TypingRule_new(str_premises, conclusion, name) ==
    Try(collect_premises(
            SelectSeq(map(split(str_premises, <<",">>), trim), NonEmpty), <<>>),
        LAMBDA premises :
            Try(parse_conclusion(conclusion),
                LAMBDA parsed : Ok([name |-> name, premises |-> premises,
                                    conclusion |-> parsed])))

(***************************************************************************)
(* grammar/save.rs: Grammar::to_spec_string                                *)
(***************************************************************************)

all_alphanumeric(s) == \A i \in 1..Len(s) : is_alphanumeric(s[i])

\* the closure of format_rhs: one symbol
format_symbol(symbol) ==
    IF IsSome(symbol.binding)
    THEN symbol.value \o <<"[">> \o symbol.binding[1] \o <<"]">>
    ELSE IF Len(symbol.value) > 1
            /\ (starts_with(symbol.value, <<"'">>) \/ starts_with(symbol.value, <<"\"">>))
    THEN symbol.value
    ELSE IF ~all_alphanumeric(symbol.value)
    THEN IF starts_with(symbol.value, <<"/">>) /\ ends_with(symbol.value, <<"/">>)
         THEN symbol.value
         ELSE <<"'">> \o symbol.value \o <<"'">>
    ELSE symbol.value

format_rhs(rhs_symbols) == join(map(rhs_symbols, format_symbol), <<" ">>)

\* the inner loop of to_spec_string over the alternatives alts[i..] of nt
RECURSIVE format_alternatives(_, _, _)
format_alternatives(nt, alts, first) ==
    IF Len(alts) = 0 THEN <<>>
    ELSE LET prod == Head(alts)
             lhs == IF IsSome(prod.rule)
                    THEN nt \o <<"(">> \o prod.rule[1] \o <<")">>
                    ELSE nt
             rhs == format_rhs(prod.rhs)
         IN  (IF first
              THEN lhs \o <<" ", ":", ":", "=", " ">> \o rhs
              ELSE <<" ", "|", " ">> \o rhs)
             \o format_alternatives(nt, Tail(alts), FALSE)

RECURSIVE format_productions(_, _)
format_productions(g, nt_list) ==
    IF Len(nt_list) = 0 THEN <<>>
    ELSE format_alternatives(Head(nt_list), g.productions[Head(nt_list)], TRUE)
         \o <<"\n">> \o format_productions(g, Tail(nt_list))

\* "Γ" or "Γ,x:τ,..." of format_premises and format_conclusion
format_extension(e) == e.variable \o <<":">> \o e.type_expr

format_judgment(j) ==
    (IF Len(j.extensions) = 0
     THEN <<"Γ">>
     ELSE <<"Γ", ",">> \o join(map(j.extensions, format_extension), <<",">>))
    \o <<" ", "⊢", " ">> \o j.expression \o <<" ", ":", " ">> \o j.type_expr

\* one premise of format_premises (TypingRule::new builds no Compound)
format_premise(p) ==
    IF p.kind = "Judgment" THEN format_judgment(p.judgment)
    ELSE IF p.kind = "Membership" THEN p.variable \o <<" ", "ϵ", " ">> \o p.context
    ELSE p.left_type \o <<" ">> \o p.relation \o <<" ">> \o p.right_type

format_premises(premises) == join(map(premises, format_premise), <<",", " ">>)

format_conclusion(conclusion) ==
    IF conclusion.kind = "TypeValue" THEN conclusion.value
    ELSE IF conclusion.kind = "Judgment" THEN format_judgment(conclusion.judgment)
    ELSE <<"Γ", "(">> \o conclusion.var \o <<")">>

\* the bytes of a character in UTF-8 (String::len counts bytes)
len_utf8(c) ==
    IF c \in {"Γ", "λ", "τ", "σ"} THEN 2
    ELSE IF c \in {"ϵ", "⊢", "→", "⊆", "⊂", "⊃", "⊇",
                   "₁", "₂", "₃", "₄", "₅", "₆", "₇", "₈", "₉", "₀"} THEN 3
    ELSE 1

\* String::len: the bytes of the characters, counted by their width
str_len(s) ==
    Cardinality({i \in 1..Len(s) : len_utf8(s[i]) = 1})
    + 2 * Cardinality({i \in 1..Len(s) : len_utf8(s[i]) = 2})
    + 3 * Cardinality({i \in 1..Len(s) : len_utf8(s[i]) = 3})

\* str::repeat
repeat(s, n) == concat([i \in 1..n |-> s])

\* the structured form of the rule that load stored as text
structured(rule) == TypingRule_new(rule.premises, rule.conclusion, rule.name)

\* the dashed line over a conclusion
dash_line(concl_str) ==
    repeat(<<"-">>, IF str_len(concl_str) + 5 > 20 THEN str_len(concl_str) + 5 ELSE 20)

\* what the loop of to_spec_string over rule_list writes for a rule
rule_text(rule, concl_str) ==
    format_premises(rule.premises) \o <<"\n">>
    \o dash_line(concl_str) \o <<" ", "(">> \o rule.name \o <<")", "\n">>
    \o concl_str \o <<"\n", "\n">>

\* the body of the loop of to_spec_string over rule_list
format_rule(rule) == rule_text(rule, format_conclusion(rule.conclusion))

RECURSIVE format_rules(_, _)
format_rules(g, names) ==
    IF Len(names) = 0 THEN <<>>
    ELSE format_rule(structured(g.typing_rules[Head(names)]).val[1])
         \o format_rules(g, Tail(names))

\* every typing rule of g has the structure save.rs formats
well_formed_rules(g) ==
    \A name \in DOMAIN g.typing_rules : structured(g.typing_rules[name]).ok

\* Grammar::to_spec_string
to_spec_string(g) ==
    <<"/", "/", " ", "-", "-", "-", " ", "P", "r", "o", "d", "u", "c", "t", "i",
      "o", "n", " ", "R", "u", "l", "e", "s", " ", "-", "-", "-", "\n">>
    \o format_productions(g, sorted(DOMAIN g.productions))
    \o <<"\n">>
    \o (IF DOMAIN g.typing_rules # {}
        THEN <<"/", "/", " ", "-", "-", "-", " ", "T", "y", "p", "i", "n", "g", " ",
               "R", "u", "l", "e", "s", " ", "-", "-", "-", "\n">>
             \o format_rules(g, sorted(DOMAIN g.typing_rules))
        ELSE <<>>)

(***************************************************************************)
(* parser.rs: the terminal test of Parser::parse_symbol                    *)
(***************************************************************************)

\* the regular expressions of the model's notations
DigitsPattern == <<"[", "0", "-", "9", "]", "+">>

IdentifierPattern ==
    <<"[", "a", "-", "z", "A", "-", "Z", "]",
      "[", "a", "-", "z", "A", "-", "Z", "0", "-", "9", "_", "]", "*">>

\* regex::Regex::new(pattern) then is_match(token), an unanchored search:
\* [0-9]+ finds a match iff the token has a digit, [a-zA-Z][a-zA-Z0-9_]* iff
\* it has a letter; any other pattern of the model does not compile
\* (Err(_) => false)
regex_is_match(pattern, token) ==
    IF pattern = DigitsPattern THEN \E i \in 1..Len(token) : token[i] \in Digits
    ELSE IF pattern = IdentifierPattern THEN \E i \in 1..Len(token) : token[i] \in Letters
    ELSE FALSE

\* terminal_matches with the quotes of a quoted terminal left in place
terminal_matches_unstripped(symbol, token) ==
    IF starts_with(symbol.value, <<"/">>) /\ ends_with(symbol.value, <<"/">>)
    THEN regex_is_match(trim_matches(symbol.value, "/"), token)
    ELSE symbol.value = token

\* the value of `matches` in Parser::parse_symbol
terminal_matches(symbol, token) ==
    IF starts_with(symbol.value, <<"'">>) /\ ends_with(symbol.value, <<"'">>)
    THEN trim_matches(symbol.value, "'") = token
    ELSE IF starts_with(symbol.value, <<"/">>) /\ ends_with(symbol.value, <<"/">>)
    THEN regex_is_match(trim_matches(symbol.value, "/"), token)
    ELSE symbol.value = token

(***************************************************************************)
(* The notations the model loads, and the tokens the tokenizer may return  *)
(* for each of them.                                                       *)
(***************************************************************************)

\* the grammar of the incomplete-input example (spec 8.8), as SIMPLE_GRAMMAR is laid out:
\*   ||
\*   |    // Simple arithmetic grammar|
\*   |    Expr ::= Term[t] '+' Expr[e] | Term[t]|
\*   |    Term ::= /[0-9]+/|
\*   |    |
ArithNotation ==
    <<"\n", " ", " ", " ", " ", "/", "/", " ", "S", "i", "m", "p", "l",
      "e", " ", "a", "r", "i", "t", "h", "m", "e", "t", "i", "c", " ", "g",
      "r", "a", "m", "m", "a", "r", "\n", " ", " ", " ", " ", "E", "x",
      "p", "r", " ", ":", ":", "=", " ", "T", "e", "r", "m", "[", "t", "]",
      " ", "'", "+", "'", " ", "E", "x", "p", "r", "[", "e", "]", " ", "|",
      " ", "T", "e", "r", "m", "[", "t", "]", "\n", " ", " ", " ", " ",
      "T", "e", "r", "m", " ", ":", ":", "=", " ", "/", "[", "0", "-", "9",
      "]", "+", "/", "\n", " ", " ", " ", " ">>

\* the left-recursive grammar of the ordered-precedence example (spec 8.4):
\*   |A ::= 'x' | A 'x'|
\*   ||
LeftRecNotation ==
    <<"A", " ", ":", ":", "=", " ", "'", "x", "'", " ", "|", " ", "A", " ",
      "'", "x", "'", "\n">>

\* a cut of LAMBDA_GRAMMAR: rule `var` is defined, rule `app` is not:
\*   |Variable(var) ::= /[a-zA-Z][a-zA-Z0-9_]*/|
\*   |Application(app) ::= Variable[f] Variable[e]|
\*   |Term ::= Application[a] | Variable[v]|
\*   ||
\*   |x ∈ Γ|
\*   |------------ (var)|
\*   |Γ(x)|
\*   ||
LambdaNotation ==
    <<"V", "a", "r", "i", "a", "b", "l", "e", "(", "v", "a", "r", ")", " ",
      ":", ":", "=", " ", "/", "[", "a", "-", "z", "A", "-", "Z", "]", "[",
      "a", "-", "z", "A", "-", "Z", "0", "-", "9", "_", "]", "*", "/",
      "\n", "A", "p", "p", "l", "i", "c", "a", "t", "i", "o", "n", "(",
      "a", "p", "p", ")", " ", ":", ":", "=", " ", "V", "a", "r", "i", "a",
      "b", "l", "e", "[", "f", "]", " ", "V", "a", "r", "i", "a", "b", "l",
      "e", "[", "e", "]", "\n", "T", "e", "r", "m", " ", ":", ":", "=",
      " ", "A", "p", "p", "l", "i", "c", "a", "t", "i", "o", "n", "[", "a",
      "]", " ", "|", " ", "V", "a", "r", "i", "a", "b", "l", "e", "[", "v",
      "]", "\n", "\n", "x", " ", "ϵ", " ", "Γ", "\n", "-", "-", "-", "-",
      "-", "-", "-", "-", "-", "-", "-", "-", " ", "(", "v", "a", "r", ")",
      "\n", "Γ", "(", "x", ")", "\n">>

\* neither Expr nor Term; A's first alternative is a prefix of its second; a bare terminal with a binding:
\*   |S(top) ::= A[l] 'c'|
\*   |A ::= 'a'|
\*   |  | 'a' b[r]|
\*   ||
ChoiceNotation ==
    <<"S", "(", "t", "o", "p", ")", " ", ":", ":", "=", " ", "A", "[", "l",
      "]", " ", "'", "c", "'", "\n", "A", " ", ":", ":", "=", " ", "'",
      "a", "'", "\n", " ", " ", "|", " ", "'", "a", "'", " ", "b", "[",
      "r", "]", "\n">>

\* one nonterminal defined by two `::=` lines with different rule names:
\*   |Term(one) ::= 'a'|
\*   ||
\*   |Term(two) ::= 'b' | "c"|
\*   ||
TwoRulesNotation ==
    <<"T", "e", "r", "m", "(", "o", "n", "e", ")", " ", ":", ":", "=", " ",
      "'", "a", "'", "\n", "\n", "T", "e", "r", "m", "(", "t", "w", "o",
      ")", " ", ":", ":", "=", " ", "'", "b", "'", " ", "|", " ", "\"",
      "c", "\"", "\n">>

\* no production at all:
\*   |// nothing here|
\*   ||
EmptyNotation ==
    <<"/", "/", " ", "n", "o", "t", "h", "i", "n", "g", " ", "h", "e", "r",
      "e", "\n">>

\* STLC_SPEC of grammar/mod.rs, character for character (with the blank first
\* line and the indentation of the raw string):
\*   ||
\*   ||
\*   |    // Identifier|
\*   |    Identifier ::= /[a-zA-Z][a-zA-Z0-9_]*/|
\*   ||
\*   |    // Variables|
\*   |    Variable(var) ::= Identifier[x]|
\*   ||
\*   |    // Type names  |
\*   |    TypeName ::= Identifier|
\*   ||
\*   |    // Base types|
\*   |    BaseType ::= TypeName | '(' Type ')'|
\*   ||
\*   |    // Function types (right-associative)|
\*   |    Type ::= BaseType[τ₁] '->' Type[τ₂] | BaseType[τ]|
\*   ||
\*   |    // Typed parameter|
\*   |    TypedParam ::= Variable[x] ':' Type[τ]|
\*   ||
\*   |    // Lambda abstraction|
\*   |    Lambda(lambda) ::= 'λ' TypedParam '.' Term[e]|
\*   ||
\*   |    // Base terms (cannot be applications)|
\*   |    BaseTerm ::= Variable | Lambda | '(' Term ')'|
\*   ||
\*   |    // Applications (left-associative via iteration)|
\*   |    Application(app) ::= BaseTerm[f] BaseTerm[e]|
\*   ||
\*   |    // Terms|
\*   |    Term ::= Application[e] | BaseTerm[e]|
\*   ||
\*   |    // Typing Rules|
\*   |    x ∈ Γ|
\*   |    ------------ (var)|
\*   |    Γ(x)|
\*   ||
\*   |    Γ[x:τ₁] ⊢ e : τ₂|
\*   |    --------------------------- (lambda)|
\*   |    τ₁ → τ₂|
\*   ||
\*   |    Γ ⊢ f : τ₁ → τ₂, Γ ⊢ e : τ₁|
\*   |    -------------------------------- (app)|
\*   |    τ₂|
\*   |    |
StlcNotation ==
    <<"\n", "\n", " ", " ", " ", " ", "/", "/", " ", "I", "d", "e", "n",
      "t", "i", "f", "i", "e", "r", "\n", " ", " ", " ", " ", "I", "d",
      "e", "n", "t", "i", "f", "i", "e", "r", " ", ":", ":", "=", " ", "/",
      "[", "a", "-", "z", "A", "-", "Z", "]", "[", "a", "-", "z", "A", "-",
      "Z", "0", "-", "9", "_", "]", "*", "/", "\n", "\n", " ", " ", " ",
      " ", "/", "/", " ", "V", "a", "r", "i", "a", "b", "l", "e", "s",
      "\n", " ", " ", " ", " ", "V", "a", "r", "i", "a", "b", "l", "e",
      "(", "v", "a", "r", ")", " ", ":", ":", "=", " ", "I", "d", "e", "n",
      "t", "i", "f", "i", "e", "r", "[", "x", "]", "\n", "\n", " ", " ",
      " ", " ", "/", "/", " ", "T", "y", "p", "e", " ", "n", "a", "m", "e",
      "s", " ", " ", "\n", " ", " ", " ", " ", "T", "y", "p", "e", "N",
      "a", "m", "e", " ", ":", ":", "=", " ", "I", "d", "e", "n", "t", "i",
      "f", "i", "e", "r", "\n", "\n", " ", " ", " ", " ", "/", "/", " ",
      "B", "a", "s", "e", " ", "t", "y", "p", "e", "s", "\n", " ", " ",
      " ", " ", "B", "a", "s", "e", "T", "y", "p", "e", " ", ":", ":", "=",
      " ", "T", "y", "p", "e", "N", "a", "m", "e", " ", "|", " ", "'", "(",
      "'", " ", "T", "y", "p", "e", " ", "'", ")", "'", "\n", "\n", " ",
      " ", " ", " ", "/", "/", " ", "F", "u", "n", "c", "t", "i", "o", "n",
      " ", "t", "y", "p", "e", "s", " ", "(", "r", "i", "g", "h", "t", "-",
      "a", "s", "s", "o", "c", "i", "a", "t", "i", "v", "e", ")", "\n",
      " ", " ", " ", " ", "T", "y", "p", "e", " ", ":", ":", "=", " ", "B",
      "a", "s", "e", "T", "y", "p", "e", "[", "τ", "₁", "]", " ", "'", "-",
      ">", "'", " ", "T", "y", "p", "e", "[", "τ", "₂", "]", " ", "|", " ",
      "B", "a", "s", "e", "T", "y", "p", "e", "[", "τ", "]", "\n", "\n",
      " ", " ", " ", " ", "/", "/", " ", "T", "y", "p", "e", "d", " ", "p",
      "a", "r", "a", "m", "e", "t", "e", "r", "\n", " ", " ", " ", " ",
      "T", "y", "p", "e", "d", "P", "a", "r", "a", "m", " ", ":", ":", "=",
      " ", "V", "a", "r", "i", "a", "b", "l", "e", "[", "x", "]", " ", "'",
      ":", "'", " ", "T", "y", "p", "e", "[", "τ", "]", "\n", "\n", " ",
      " ", " ", " ", "/", "/", " ", "L", "a", "m", "b", "d", "a", " ", "a",
      "b", "s", "t", "r", "a", "c", "t", "i", "o", "n", "\n", " ", " ",
      " ", " ", "L", "a", "m", "b", "d", "a", "(", "l", "a", "m", "b", "d",
      "a", ")", " ", ":", ":", "=", " ", "'", "λ", "'", " ", "T", "y", "p",
      "e", "d", "P", "a", "r", "a", "m", " ", "'", ".", "'", " ", "T", "e",
      "r", "m", "[", "e", "]", "\n", "\n", " ", " ", " ", " ", "/", "/",
      " ", "B", "a", "s", "e", " ", "t", "e", "r", "m", "s", " ", "(", "c",
      "a", "n", "n", "o", "t", " ", "b", "e", " ", "a", "p", "p", "l", "i",
      "c", "a", "t", "i", "o", "n", "s", ")", "\n", " ", " ", " ", " ",
      "B", "a", "s", "e", "T", "e", "r", "m", " ", ":", ":", "=", " ", "V",
      "a", "r", "i", "a", "b", "l", "e", " ", "|", " ", "L", "a", "m", "b",
      "d", "a", " ", "|", " ", "'", "(", "'", " ", "T", "e", "r", "m", " ",
      "'", ")", "'", "\n", "\n", " ", " ", " ", " ", "/", "/", " ", "A",
      "p", "p", "l", "i", "c", "a", "t", "i", "o", "n", "s", " ", "(", "l",
      "e", "f", "t", "-", "a", "s", "s", "o", "c", "i", "a", "t", "i", "v",
      "e", " ", "v", "i", "a", " ", "i", "t", "e", "r", "a", "t", "i", "o",
      "n", ")", "\n", " ", " ", " ", " ", "A", "p", "p", "l", "i", "c",
      "a", "t", "i", "o", "n", "(", "a", "p", "p", ")", " ", ":", ":", "=",
      " ", "B", "a", "s", "e", "T", "e", "r", "m", "[", "f", "]", " ", "B",
      "a", "s", "e", "T", "e", "r", "m", "[", "e", "]", "\n", "\n", " ",
      " ", " ", " ", "/", "/", " ", "T", "e", "r", "m", "s", "\n", " ",
      " ", " ", " ", "T", "e", "r", "m", " ", ":", ":", "=", " ", "A", "p",
      "p", "l", "i", "c", "a", "t", "i", "o", "n", "[", "e", "]", " ", "|",
      " ", "B", "a", "s", "e", "T", "e", "r", "m", "[", "e", "]", "\n",
      "\n", " ", " ", " ", " ", "/", "/", " ", "T", "y", "p", "i", "n",
      "g", " ", "R", "u", "l", "e", "s", "\n", " ", " ", " ", " ", "x",
      " ", "ϵ", " ", "Γ", "\n", " ", " ", " ", " ", "-", "-", "-", "-",
      "-", "-", "-", "-", "-", "-", "-", "-", " ", "(", "v", "a", "r", ")",
      "\n", " ", " ", " ", " ", "Γ", "(", "x", ")", "\n", "\n", " ", " ",
      " ", " ", "Γ", "[", "x", ":", "τ", "₁", "]", " ", "⊢", " ", "e", " ",
      ":", " ", "τ", "₂", "\n", " ", " ", " ", " ", "-", "-", "-", "-",
      "-", "-", "-", "-", "-", "-", "-", "-", "-", "-", "-", "-", "-", "-",
      "-", "-", "-", "-", "-", "-", "-", "-", "-", " ", "(", "l", "a", "m",
      "b", "d", "a", ")", "\n", " ", " ", " ", " ", "τ", "₁", " ", "→",
      " ", "τ", "₂", "\n", "\n", " ", " ", " ", " ", "Γ", " ", "⊢", " ",
      "f", " ", ":", " ", "τ", "₁", " ", "→", " ", "τ", "₂", ",", " ", "Γ",
      " ", "⊢", " ", "e", " ", ":", " ", "τ", "₁", "\n", " ", " ", " ",
      " ", "-", "-", "-", "-", "-", "-", "-", "-", "-", "-", "-", "-", "-",
      "-", "-", "-", "-", "-", "-", "-", "-", "-", "-", "-", "-", "-", "-",
      "-", "-", "-", "-", "-", " ", "(", "a", "p", "p", ")", "\n", " ",
      " ", " ", " ", "τ", "₂", "\n", " ", " ", " ", " ">>

\* a rule whose premises are written on two lines:
\*   |Term(app) ::= 'x'|
\*   ||
\*   |Γ ⊢ f : τ₁ → τ₂,|
\*   |Γ ⊢ e : τ₁|
\*   |-------- (app)|
\*   |τ₂|
TwoPremiseLinesNotation ==
    <<"T", "e", "r", "m", "(", "a", "p", "p", ")", " ", ":", ":", "=", " ",
      "'", "x", "'", "\n", "\n", "Γ", " ", "⊢", " ", "f", " ", ":", " ",
      "τ", "₁", " ", "→", " ", "τ", "₂", ",", "\n", "Γ", " ", "⊢", " ",
      "e", " ", ":", " ", "τ", "₁", "\n", "-", "-", "-", "-", "-", "-",
      "-", "-", " ", "(", "a", "p", "p", ")", "\n", "τ", "₂", "\n">>

\* a rule whose name is written after the conclusion, not after the dashes:
\*   |Term(var) ::= 'x'|
\*   ||
\*   |x ∈ Γ|
\*   |--------|
\*   |Γ(x) (var)|
NameOnConclusionNotation ==
    <<"T", "e", "r", "m", "(", "v", "a", "r", ")", " ", ":", ":", "=", " ",
      "'", "x", "'", "\n", "\n", "x", " ", "ϵ", " ", "Γ", "\n", "-", "-",
      "-", "-", "-", "-", "-", "-", "\n", "Γ", "(", "x", ")", " ", "(",
      "v", "a", "r", ")", "\n">>

\* a production block that holds the lines of an inference rule and a `|`
\* line that follows no production line, a literal that is a double quote,
\* a block with neither `::=` nor dashes, a block with two dashed lines and
\* two rules of one name:
\*   |Term(var) ::= 'x' | '"' 'x' '"'|
\*   || 'x' 'x'|
\*   |x ∈ Γ|
\*   |-------- (mixed)|
\*   |Γ(x)|
\*   || 'y'|
\*   ||
\*   |x ∈ Γ|
\*   |-------- (var)|
\*   |Γ(x)|
\*   ||
\*   |just some words|
\*   ||
\*   |-------- (app)|
\*   |τ|
\*   |------ (other)|
\*   |σ|
\*   ||
\*   |y ∈ Γ|
\*   |-------- (var)|
\*   |σ|
\*   ||
MixedNotation ==
    <<"T", "e", "r", "m", "(", "v", "a", "r", ")", " ", ":", ":", "=", " ",
      "'", "x", "'", " ", "|", " ", "'", "\"", "'", " ", "'", "x", "'",
      " ", "'", "\"", "'", "\n", "|", " ", "'", "x", "'", " ", "'", "x",
      "'", "\n", "x", " ", "ϵ", " ", "Γ", "\n", "-", "-", "-", "-", "-",
      "-", "-", "-", " ", "(", "m", "i", "x", "e", "d", ")", "\n", "Γ",
      "(", "x", ")", "\n", "|", " ", "'", "y", "'", "\n", "\n", "x", " ",
      "ϵ", " ", "Γ", "\n", "-", "-", "-", "-", "-", "-", "-", "-", " ",
      "(", "v", "a", "r", ")", "\n", "Γ", "(", "x", ")", "\n", "\n", "j",
      "u", "s", "t", " ", "s", "o", "m", "e", " ", "w", "o", "r", "d", "s",
      "\n", "\n", "-", "-", "-", "-", "-", "-", "-", "-", " ", "(", "a",
      "p", "p", ")", "\n", "τ", "\n", "-", "-", "-", "-", "-", "-", " ",
      "(", "o", "t", "h", "e", "r", ")", "\n", "σ", "\n", "\n", "y", " ",
      "ϵ", " ", "Γ", "\n", "-", "-", "-", "-", "-", "-", "-", "-", " ",
      "(", "v", "a", "r", ")", "\n", "σ", "\n">>

\* the longest token sequence the tokenizer returns in the model
MaxTokens == 3

\* the deepest nesting of parse_nonterminal calls the thread's stack holds
StackLimit == 12

Notations ==
    <<[text |-> ArithNotation, vocabulary |-> {<<"1">>, <<"+">>, <<"@">>}],
      [text |-> LeftRecNotation, vocabulary |-> {<<"x">>, <<"y">>}],
      [text |-> LambdaNotation, vocabulary |-> {<<"x">>, <<"y">>, <<"(">>}],
      [text |-> ChoiceNotation, vocabulary |-> {<<"a">>, <<"b">>, <<"c">>}],
      [text |-> TwoRulesNotation, vocabulary |-> {<<"a">>, <<"b">>, <<"\"", "c", "\"">>}],
      [text |-> EmptyNotation, vocabulary |-> {<<"x">>}],
      [text |-> StlcNotation, vocabulary |-> {<<"x">>, <<"y">>, <<"λ">>}],
      [text |-> TwoPremiseLinesNotation, vocabulary |-> {<<"x">>}],
      [text |-> NameOnConclusionNotation, vocabulary |-> {<<"x">>}],
      [text |-> MixedNotation, vocabulary |-> {<<"x">>, <<"\"">>}]>>

\* Tokenizer::tokenize followed by Tokenizer::str on every id (parser.rs
\* 34-40): the tokenizer rejects the input, or the token texts are some
\* finite sequence, empty for an input without tokens
tokenize(vocabulary) ==
    {Err("tokenizer")}
    \cup {Ok(ts) : ts \in UNION {[1..n -> vocabulary] : n \in 0..MaxTokens}}

(***************************************************************************)
(* State.                                                                  *)
(***************************************************************************)

VARIABLES
    notation,     \* which text Grammar::load is given
    pc,           \* "start", "loaded", "load_failed", "idle", "running",
                  \* "done", "aborted", "serialized", "decoded"
    loaded,       \* the Grammar built by Grammar::load, before it is moved
                  \* into a Parser (grammar1 of roundtrip_write_and_parse)
    spec_string,  \* the text written by to_spec_string
    reloaded,     \* the result of Grammar::load on spec_string (grammar2)
    grammar,      \* Parser.grammar
    tokens,       \* Parser.tokens
    pos,          \* Parser.pos
    stack,        \* the activations of parse and parse_nonterminal
    ret,          \* the value the call that has just returned handed back
                  \* (parse_symbol to try_production, parse to its caller),
                  \* with what the call was given
    result,       \* what the last call of parse returned
    text,         \* the text given to a function of the typing-rule parser,
                  \* or the canonical text of a tree
    call,         \* the function of the typing-rule parser or of the tree
                  \* codec that was called last, "none" before the call
    output,       \* what that call returned
    calls         \* the calls of add_typing_rule and add_special_token made on the
                  \* loaded grammar, each with its argument, in their order

vars ==
    <<notation, pc, loaded, spec_string, reloaded, grammar, tokens, pos,
      stack, ret, result, text, call, output, calls>>

typing_vars == <<text, call, output, calls>>

parser_vars == <<grammar, tokens, pos, stack, ret, result>>

grammar_vars == <<loaded, spec_string, reloaded>>

Init ==
    /\ notation \in 1..Len(Notations)
    /\ pc = "start"
    /\ loaded = None
    /\ spec_string = None
    /\ reloaded = None
    /\ grammar = Grammar_new
    /\ tokens = <<>>
    /\ pos = 0
    /\ stack = <<>>
    /\ ret = None
    /\ result = None
    /\ text = <<>>
    /\ call = "none"
    /\ output = None
    /\ calls = <<>>

(***************************************************************************)
(* Loading and saving a grammar.                                           *)
(***************************************************************************)

\* Grammar::load(text)
Load ==
    /\ pc = "start"
    /\ LET r == Grammar_load(Notations[notation].text)
       IN  /\ loaded' = Some(r)
           /\ pc' = IF r.ok THEN "loaded" ELSE "load_failed"
    /\ UNCHANGED <<notation, spec_string, reloaded>>
    /\ UNCHANGED typing_vars
    /\ UNCHANGED parser_vars

\* grammar1.to_spec_string(), for a grammar whose rules have the structure
\* that save.rs formats
Save ==
    /\ pc = "loaded"
    /\ spec_string = None
    /\ well_formed_rules(loaded[1].val[1])
    /\ spec_string' = Some(to_spec_string(loaded[1].val[1]))
    /\ UNCHANGED <<notation, pc, loaded, reloaded>>
    /\ UNCHANGED typing_vars
    /\ UNCHANGED parser_vars

\* Grammar::load(&spec)
Reload ==
    /\ pc = "loaded"
    /\ spec_string # None
    /\ reloaded = None
    /\ reloaded' = Some(Grammar_load(spec_string[1]))
    /\ UNCHANGED <<notation, pc, loaded, spec_string>>
    /\ UNCHANGED typing_vars
    /\ UNCHANGED parser_vars

\* Parser::new(grammar): the grammar moves into the parser
Parser_new ==
    /\ pc = "loaded"
    /\ \E g \in {loaded[1]} \cup {r \in {reloaded[i] : i \in 1..Len(reloaded)} : r.ok} :
           grammar' = g.val[1]
    /\ pc' = "idle"
    /\ tokens' = <<>>
    /\ pos' = 0
    /\ loaded' = None
    /\ spec_string' = None
    /\ reloaded' = None
    /\ UNCHANGED <<notation, stack, ret, result>>
    /\ UNCHANGED typing_vars

(***************************************************************************)
(* parser.rs: Parser::parse, parse_nonterminal, try_production and         *)
(* parse_symbol, one step at a time.  A frame is one activation of parse   *)
(* or of parse_nonterminal together with the try_production it is in:      *)
(*   fn           "parse" or "parse_nonterminal"                           *)
(*   nt           start_nt, or the argument nt                             *)
(*   alt          the index of `production` in `productions` (from 1)      *)
(*   at           "for" at the head of the for loop over the productions,  *)
(*                "try" inside try_production                              *)
(*   initial_pos  the local of parse_nonterminal                           *)
(*   k            the index of `symbol` in production.rhs (from 1)         *)
(*   children     the local of try_production                              *)
(*   entry        the cursor when the activation began                     *)
(*   symbol       the Symbol that parse_symbol was called with             *)
(***************************************************************************)

Frame(fn, nt, symbol, entry) ==
    [fn |-> fn, nt |-> nt, alt |-> 1, at |-> "for", initial_pos |-> entry,
     k |-> 1, children |-> <<>>, entry |-> entry, symbol |-> symbol]

Top == stack[Len(stack)]

Pop == SubSeq(stack, 1, Len(stack) - 1)

\* productions_of with the alternatives in reverse order
productions_of_reversed(nt) ==
    IF nt \in DOMAIN grammar.productions
    THEN [i \in 1..Len(grammar.productions[nt]) |->
             grammar.productions[nt][Len(grammar.productions[nt]) + 1 - i]]
    ELSE <<>>

\* self.grammar.productions.get(nt).cloned(); without an entry the for
\* loop is skipped, as it is over an empty list
productions_of(nt) ==
    IF nt \in DOMAIN grammar.productions THEN grammar.productions[nt] ELSE <<>>

\* typing_rule_of with the lookup left out
typing_rule_of_unattached(production) == None

\* the typing rule looked up for a successful production
typing_rule_of(production) ==
    IF IsSome(production.rule)
    THEN map_get(grammar.typing_rules, production.rule[1])
    ELSE None

\* SourceSpan with the end in the place of the start
SourceSpan_from_end(start, end) == [start |-> end, end |-> end]

SourceSpan(start, end) == [start |-> start, end |-> end]

\* the ASTNode built by parse and by parse_nonterminal
NonterminalNode(nt, span, children, production) ==
    [kind |-> "Nonterminal", value |-> nt, span |-> Some(span),
     children |-> Some(children), binding |-> None,
     typing_rule |-> typing_rule_of(production)]

\* TerminalNode with the text of the symbol in the place of the token
TerminalNode_of_symbol(token, symbol, p) ==
    [kind |-> "Terminal", value |-> symbol.value, span |-> Some(SourceSpan(p, p + 1)),
     children |-> None, binding |-> symbol.binding, typing_rule |-> None]

\* the ASTNode built by parse_symbol
TerminalNode(token, symbol, p) ==
    [kind |-> "Terminal", value |-> token, span |-> Some(SourceSpan(p, p + 1)),
     children |-> None, binding |-> symbol.binding, typing_rule |-> None]

\* what parse_symbol (and through it parse_nonterminal) or parse hands back,
\* with the symbol the call was for, the cursor at its entry and the index
\* of the production the node was built from (0 if none)
Return(res, symbol, entry, alt) ==
    Some([res |-> res, symbol |-> symbol, entry |-> entry, alt |-> alt])

\* start_nts with Term preferred to Expr
start_nts_term_first ==
    IF <<"T", "e", "r", "m">> \in DOMAIN grammar.productions
    THEN {<<"T", "e", "r", "m">>}
    ELSE IF <<"E", "x", "p", "r">> \in DOMAIN grammar.productions
    THEN {<<"E", "x", "p", "r">>}
    ELSE IF DOMAIN grammar.productions # {}
    THEN DOMAIN grammar.productions
    ELSE {<<"T", "e", "r", "m">>}

\* the start nonterminals parse may pick (keys().next() of a HashMap is any key)
start_nts ==
    IF <<"E", "x", "p", "r">> \in DOMAIN grammar.productions
    THEN {<<"E", "x", "p", "r">>}
    ELSE IF <<"T", "e", "r", "m">> \in DOMAIN grammar.productions
    THEN {<<"T", "e", "r", "m">>}
    ELSE IF DOMAIN grammar.productions # {}
    THEN DOMAIN grammar.productions
    ELSE {<<"T", "e", "r", "m">>}

\* is_empty that never finds the tokens empty
is_empty_never(v) == FALSE

\* Vec::is_empty
is_empty(v) == Len(v) = 0

\* Parser::parse up to the for loop over the productions of start_nt
Parse ==
    /\ pc \in {"idle", "done"}
    /\ \E t \in tokenize(Notations[notation].vocabulary) :
         IF ~t.ok
         THEN /\ result' = Some(Err("Tokenization failed"))
              /\ pc' = "done"
              /\ UNCHANGED <<tokens, pos, stack>>
         ELSE /\ tokens' = t.val[1]
              /\ pos' = 0
              /\ IF is_empty(t.val[1])
                 THEN /\ result' = Some(Err("Empty input"))
                      /\ pc' = "done"
                      /\ UNCHANGED stack
                 ELSE /\ \E start_nt \in start_nts :
                           stack' = <<Frame("parse", start_nt, Symbol_new(start_nt), 0)>>
                      /\ result' = None
                      /\ pc' = "running"
    /\ ret' = None
    /\ UNCHANGED <<notation, grammar>>
    /\ UNCHANGED typing_vars
    /\ UNCHANGED grammar_vars

\* attempt_start without the reset: the cursor stays where it is
attempt_start_stale == pos

\* self.pos = 0 of parse, before each attempt
attempt_start == 0

\* the head of `for production in productions`, with a production left:
\* parse resets the cursor, parse_nonterminal records it
NextProduction ==
    /\ pc = "running" /\ Top.at = "for"
    /\ Top.alt <= Len(productions_of(Top.nt))
    /\ IF Top.fn = "parse"
       THEN /\ pos' = attempt_start
            /\ stack' = [stack EXCEPT ![Len(stack)] =
                            [@ EXCEPT !.at = "try", !.k = 1, !.children = <<>>]]
       ELSE /\ pos' = pos
            /\ stack' = [stack EXCEPT ![Len(stack)] =
                            [@ EXCEPT !.at = "try", !.k = 1, !.children = <<>>,
                                      !.initial_pos = pos]]
    /\ UNCHANGED <<notation, pc, grammar, tokens, ret, result>>
    /\ UNCHANGED typing_vars
    /\ UNCHANGED grammar_vars

\* the for loop is over: parse and parse_nonterminal return their final Err
NoProductionLeft ==
    /\ pc = "running" /\ Top.at = "for"
    /\ Top.alt > Len(productions_of(Top.nt))
    /\ IF Top.fn = "parse"
       THEN /\ result' = Some(Err("Unable to parse input completely"))
            /\ pc' = "done"
            /\ ret' = Return(Err("Unable to parse input completely"),
                             Top.symbol, Top.entry, 0)
       ELSE /\ ret' = Return(Err("Unable to parse nonterminal: {}"),
                             Top.symbol, Top.entry, 0)
            /\ UNCHANGED <<result, pc>>
    /\ stack' = Pop
    /\ UNCHANGED <<notation, grammar, tokens, pos>>
    /\ UNCHANGED typing_vars
    /\ UNCHANGED grammar_vars

\* the symbol try_production is at
CurrentProduction == productions_of(Top.nt)[Top.alt]

CurrentSymbol == CurrentProduction.rhs[Top.k]

InTryProduction ==
    /\ pc = "running" /\ Top.at = "try" /\ ret = None
    /\ Top.k <= Len(CurrentProduction.rhs)

\* parse_symbol with the cursor at the end of the tokens
ParseSymbolEndOfInput ==
    /\ InTryProduction
    /\ pos >= Len(tokens)
    /\ ret' = Return(Err("Unexpected end of input"), CurrentSymbol, pos, 0)
    /\ UNCHANGED <<notation, pc, grammar, tokens, pos, stack, result>>
    /\ UNCHANGED typing_vars
    /\ UNCHANGED grammar_vars

\* parse_symbol on a symbol that is a key of productions: the call of
\* parse_nonterminal, which overflows the stack when it is nested too deep
ParseSymbolNonterminal ==
    /\ InTryProduction
    /\ pos < Len(tokens)
    /\ CurrentSymbol.value \in DOMAIN grammar.productions
    /\ IF Len(stack) < StackLimit
       THEN /\ stack' = Append(stack, Frame("parse_nonterminal", CurrentSymbol.value,
                                            CurrentSymbol, pos))
            /\ UNCHANGED pc
       ELSE /\ pc' = "aborted"
            /\ UNCHANGED stack
    /\ UNCHANGED <<notation, grammar, tokens, pos, ret, result>>
    /\ UNCHANGED typing_vars
    /\ UNCHANGED grammar_vars

\* advance that skips a token
advance_by_two == pos + 2

\* advance that leaves the cursor where it is
advance_nowhere == pos

\* self.pos += 1
advance == pos + 1

\* parse_symbol on a terminal: the token matches and is consumed, or not
ParseSymbolTerminal ==
    /\ InTryProduction
    /\ pos < Len(tokens)
    /\ CurrentSymbol.value \notin DOMAIN grammar.productions
    /\ LET token == tokens[pos + 1]
       IN  IF terminal_matches(CurrentSymbol, token)
           THEN /\ ret' = Return(Ok(TerminalNode(token, CurrentSymbol, pos)),
                                 CurrentSymbol, pos, 0)
                /\ pos' = advance
           ELSE /\ ret' = Return(Err("Expected '{}', found '{}'"), CurrentSymbol, pos, 0)
                /\ pos' = pos
    /\ UNCHANGED <<notation, pc, grammar, tokens, stack, result>>
    /\ UNCHANGED typing_vars
    /\ UNCHANGED grammar_vars

\* backtrack without the reset of the cursor
backtrack_nowhere(frame) == pos

\* the Err arm of parse_nonterminal: self.pos = initial_pos
backtrack(frame) == frame.initial_pos

\* all_consumed without the test
all_consumed_always == TRUE

\* the test of parse on a production that matched: self.pos >= self.tokens.len()
all_consumed == pos >= Len(tokens)

\* try_production matches on what parse_symbol returned: a child is pushed,
\* or the Err is returned to the for loop, where parse_nonterminal
\* backtracks and both go on to the next production
SymbolReturned ==
    /\ pc = "running" /\ Top.at = "try" /\ ret # None
    /\ IF ret[1].res.ok
       THEN /\ stack' = [stack EXCEPT ![Len(stack)] =
                            [@ EXCEPT !.children = Append(@, ret[1].res.val[1]),
                                      !.k = @ + 1]]
            /\ pos' = pos
       ELSE /\ stack' = [stack EXCEPT ![Len(stack)] =
                            [@ EXCEPT !.at = "for", !.alt = @ + 1]]
            /\ pos' = IF Top.fn = "parse" THEN pos ELSE backtrack(Top)
    /\ ret' = None
    /\ UNCHANGED <<notation, pc, grammar, tokens, result>>
    /\ UNCHANGED typing_vars
    /\ UNCHANGED grammar_vars

\* try_production returns Ok(children): parse_nonterminal returns its node;
\* parse returns the root if every token is consumed and otherwise goes on
\* to the next production
ProductionMatched ==
    /\ pc = "running" /\ Top.at = "try" /\ ret = None
    /\ Top.k > Len(CurrentProduction.rhs)
    /\ IF Top.fn = "parse_nonterminal"
       THEN /\ ret' = Return(Ok(NonterminalNode(Top.nt, SourceSpan(Top.initial_pos, pos),
                                                Top.children, CurrentProduction)),
                             Top.symbol, Top.entry, Top.alt)
            /\ stack' = Pop
            /\ UNCHANGED <<pc, result>>
       ELSE IF all_consumed
       THEN /\ result' = Some(Ok(NonterminalNode(Top.nt, SourceSpan(0, pos),
                                                 Top.children, CurrentProduction)))
            /\ ret' = Return(Ok(NonterminalNode(Top.nt, SourceSpan(0, pos),
                                                Top.children, CurrentProduction)),
                             Top.symbol, Top.entry, Top.alt)
            /\ pc' = "done"
            /\ stack' = Pop
       ELSE /\ stack' = [stack EXCEPT ![Len(stack)] =
                            [@ EXCEPT !.at = "for", !.alt = @ + 1]]
            /\ UNCHANGED <<pc, result, ret>>
    /\ UNCHANGED <<notation, grammar, tokens, pos>>
    /\ UNCHANGED typing_vars
    /\ UNCHANGED grammar_vars

(***************************************************************************)
(* utils.rs: ast_eq, and the canonical tree text it is the oracle of.  The *)
(* text of a Nonterminal node is (N name (rule r) (b binding) child ...),  *)
(* that of a Terminal node (T (b binding) "value"); the groups (rule r)    *)
(* and (b binding) are written only for a node that has the field, and a   *)
(* double quote or a backslash of a value is written behind a backslash.   *)
(***************************************************************************)

\* ast_eq that compares the spans as well
RECURSIVE ast_eq_with_span(_, _)
ast_eq_with_span(a, b) ==
    IF a.kind # b.kind \/ a.value # b.value \/ a.binding # b.binding \/ a.span # b.span
    THEN FALSE
    ELSE IF IsSome(a.children) /\ IsSome(b.children)
    THEN /\ Len(a.children[1]) = Len(b.children[1])
         /\ \A i \in 1..Len(a.children[1]) :
                ast_eq_with_span(a.children[1][i], b.children[1][i])
    ELSE a.children = None /\ b.children = None

\* ast_eq: kind, value, binding and the children, pairwise and in order
RECURSIVE ast_eq(_, _)
ast_eq(a, b) ==
    IF a.kind # b.kind \/ a.value # b.value \/ a.binding # b.binding
    THEN FALSE
    ELSE IF IsSome(a.children) /\ IsSome(b.children)
    THEN /\ Len(a.children[1]) = Len(b.children[1])
         /\ \A i \in 1..Len(a.children[1]) : ast_eq(a.children[1][i], b.children[1][i])
    ELSE a.children = None /\ b.children = None

RuleGroup == <<" ", "(", "r", "u", "l", "e", " ">>

BindingGroup == <<" ", "(", "b", " ">>

\* one character of a quoted value
escaped(c) == IF c \in {"\"", "\\"} THEN <<"\\", c>> ELSE <<c>>

\* the quoted literal of a value
quoted(value) == <<"\"">> \o concat(map(value, escaped)) \o <<"\"">>

\* an optional group: nothing for None
group(tag, field) == IF IsSome(field) THEN tag \o field[1] \o <<")">> ELSE <<>>

rule_name_of(typing_rule) ==
    IF IsSome(typing_rule) THEN Some(typing_rule[1].name) ELSE None

\* the canonical text of a tree
RECURSIVE serialize(_)
serialize(node) ==
    IF node.kind = "Nonterminal"
    THEN <<"(", "N", " ">> \o node.value
             \o group(RuleGroup, rule_name_of(node.typing_rule))
             \o group(BindingGroup, node.binding)
             \o concat([i \in 1..Len(node.children[1]) |->
                           <<" ">> \o serialize(node.children[1][i])])
             \o <<")">>
    ELSE <<"(", "T">> \o group(BindingGroup, node.binding)
             \o <<" ">> \o quoted(node.value) \o <<")">>

\* the text has p at position i
looking_at(s, i, p) ==
    i >= 1 /\ i + Len(p) - 1 <= Len(s) /\ SubSeq(s, i, i + Len(p) - 1) = p

\* the first position from i on with one of the characters, or the end
until(s, i, stops) ==
    SetMin({j \in i..(Len(s) + 1) : j = Len(s) + 1 \/ s[j] \in stops})

\* an optional group at position i: its field and the position behind it
read_group(s, i, tag) ==
    IF looking_at(s, i, tag) /\ until(s, i + Len(tag), {")"}) <= Len(s)
    THEN [field |-> Some(SubSeq(s, i + Len(tag), until(s, i + Len(tag), {")"}) - 1)),
          next |-> until(s, i + Len(tag), {")"}) + 1]
    ELSE [field |-> None, next |-> i]

\* the number of backslashes right before position j
backslashes_before(s, j) ==
    j - 1 - SetMax({0} \cup {k \in 1..(j - 1) : s[k] # "\\"})

\* the double quotes behind the opening one at i that no backslash escapes
closing_quotes(s, i) ==
    {j \in (i + 1)..Len(s) : s[j] = "\"" /\ backslashes_before(s, j) % 2 = 0}

\* the value of the text between two quotes: the escaping backslashes go
unescaped(q) ==
    SelectSeq([k \in 1..Len(q) |->
                  IF q[k] = "\\" /\ backslashes_before(q, k) % 2 = 0
                  THEN <<>> ELSE <<q[k]>>],
              NonEmpty)

ParsedNode(kind, value, children, binding, rule_name) ==
    [kind |-> kind, value |-> value, span |-> None, children |-> children,
     binding |-> binding,
     typing_rule |-> IF IsSome(rule_name)
                     THEN Some([name |-> rule_name[1], premises |-> <<>>,
                                conclusion |-> <<>>])
                     ELSE None]

\* the Terminal node at position i, behind "(T"
parse_terminal(s, i) ==
    LET b == read_group(s, i + 2, BindingGroup)
        open == b.next + 1
        close == SetMin(closing_quotes(s, open))
    IN  IF /\ looking_at(s, b.next, <<" ", "\"">>)
           /\ closing_quotes(s, open) # {}
           /\ looking_at(s, close + 1, <<")">>)
        THEN Ok([node |-> ParsedNode("Terminal",
                                     concat(unescaped(SubSeq(s, open + 1, close - 1))),
                                     None, b.field, None),
                 next |-> close + 2])
        ELSE Err("expected a quoted value")

\* the node at position i of a canonical text and the position behind it
RECURSIVE parse_node(_, _)
RECURSIVE parse_children(_, _, _)
parse_node(s, i) ==
    IF looking_at(s, i, <<"(", "N", " ">>)
    THEN LET e == until(s, i + 3, {" ", ")"})
             rule == read_group(s, e, RuleGroup)
             b == read_group(s, rule.next, BindingGroup)
             cs == parse_children(s, b.next, <<>>)
         IN  IF ~cs.ok THEN cs
             ELSE Ok([node |-> ParsedNode("Nonterminal", SubSeq(s, i + 3, e - 1),
                                          Some(cs.val[1].nodes), b.field, rule.field),
                      next |-> cs.val[1].next])
    ELSE IF looking_at(s, i, <<"(", "T">>) THEN parse_terminal(s, i)
    ELSE Err("expected a node")

\* the children from position i on, up to the ")" of their parent
parse_children(s, i, nodes) ==
    IF looking_at(s, i, <<")">>) THEN Ok([nodes |-> nodes, next |-> i + 1])
    ELSE IF looking_at(s, i, <<" ">>)
    THEN LET r == parse_node(s, i + 1)
         IN  IF ~r.ok THEN r
             ELSE parse_children(s, r.val[1].next, Append(nodes, r.val[1].node))
    ELSE Err("expected a child or the end of the node")

\* the tree of a canonical text
parse_canonical(s) ==
    LET r == parse_node(s, 1)
    IN  IF ~r.ok THEN r
        ELSE IF r.val[1].next # Len(s) + 1 THEN Err("text behind the tree")
        ELSE Ok(r.val[1].node)

\* serialize(&tree), for the tree a successful parse returned
Serialize ==
    /\ pc = "done"
    /\ result # None /\ result[1].ok
    /\ text' = serialize(result[1].val[1])
    /\ call' = "serialize"
    /\ pc' = "serialized"
    /\ UNCHANGED <<notation, output, calls>>
    /\ UNCHANGED grammar_vars
    /\ UNCHANGED parser_vars

\* parse_canonical(&text)
ParseCanonical ==
    /\ pc = "serialized"
    /\ output' = Some(parse_canonical(text))
    /\ call' = "parse_canonical"
    /\ pc' = "decoded"
    /\ UNCHANGED <<notation, text, calls>>
    /\ UNCHANGED grammar_vars
    /\ UNCHANGED parser_vars

Next ==
    \/ Load
    \/ Save
    \/ Reload
    \/ Parser_new
    \/ Parse
    \/ NextProduction
    \/ NoProductionLeft
    \/ ParseSymbolEndOfInput
    \/ ParseSymbolNonterminal
    \/ ParseSymbolTerminal
    \/ SymbolReturned
    \/ ProductionMatched
    \/ Serialize
    \/ ParseCanonical

Spec == Init /\ [][Next]_vars

\* the steps of a call of parse that is under way: the code is synchronous
\* and runs them one after the other until parse returns
Step ==
    \/ NextProduction
    \/ NoProductionLeft
    \/ ParseSymbolEndOfInput
    \/ ParseSymbolNonterminal
    \/ ParseSymbolTerminal
    \/ SymbolReturned
    \/ ProductionMatched

FairSpec == Spec /\ WF_vars(Step)

(***************************************************************************)
(* The parser of typing rules (grammar/typing.rs, check/parse.rs) as pure  *)
(* functions of a text: one of them is called once on a text drawn from    *)
(* the rules of the repository and from every short text over the          *)
(* fragments that the functions look for.                                  *)
(***************************************************************************)

\* "Γ,x:τ₁,y:τ₂ ⊢ e : σ"
JudgmentWithExtensions ==
    <<"Γ", ",", "x", ":", "τ", "₁", ",", "y", ":", "τ", "₂", " ", "⊢", " ",
      "e", " ", ":", " ", "σ">>

\* "Γ ⊢ e : τ, x ∈ Γ, τ₁ <: τ₂"
ThreePremises ==
    <<"Γ", " ", "⊢", " ", "e", " ", ":", " ", "τ", ",", " ", "x", " ", "ϵ",
      " ", "Γ", ",", " ", "τ", "₁", " ", "<", ":", " ", "τ", "₂">>

\* "τ₁ <: τ₂"
Subtyping ==
    <<"τ", "₁", " ", "<", ":", " ", "τ", "₂">>

\* "Δ ⊢ e : τ"
DeltaJudgment ==
    <<"Δ", " ", "⊢", " ", "e", " ", ":", " ", "τ">>

\* "Γ,x:τ₁,y:τ₂"
TwoExtensions ==
    <<"Γ", ",", "x", ":", "τ", "₁", ",", "y", ":", "τ", "₂">>

\* "Γ[x:τ₁] ⊢ e : τ₂"
BracketJudgment ==
    <<"Γ", "[", "x", ":", "τ", "₁", "]", " ", "⊢", " ", "e", " ", ":", " ",
      "τ", "₂">>

\* "Γ ⊢ f : τ₁ → τ₂, Γ ⊢ e : τ₁"
AppPremises ==
    <<"Γ", " ", "⊢", " ", "f", " ", ":", " ", "τ", "₁", " ", "→", " ", "τ",
      "₂", ",", " ", "Γ", " ", "⊢", " ", "e", " ", ":", " ", "τ", "₁">>

\* "τ₁ → τ₂"
ArrowType ==
    <<"τ", "₁", " ", "→", " ", "τ", "₂">>

\* "a = b : c"
TwoRelations ==
    <<"a", " ", "=", " ", "b", " ", ":", " ", "c">>

\* "Γ(x)"
Lookup ==
    <<"Γ", "(", "x", ")">>

\* "Γ ⊢ e : σ"
PlainJudgment ==
    <<"Γ", " ", "⊢", " ", "e", " ", ":", " ", "σ">>

Examples ==
    {JudgmentWithExtensions, ThreePremises, Subtyping, DeltaJudgment, TwoExtensions,
     BracketJudgment, AppPremises, ArrowType, TwoRelations, Lookup, PlainJudgment}

\* the pieces the short texts are made of
Fragments ==
    {<<"Γ">>, <<"Δ">>, <<",">>, <<":">>, <<"⊢">>, <<"ϵ">>, <<"=">>, <<"(">>,
     <<")">>, <<" ">>, <<"x">>, <<"x", ":", "τ">>}

\* the largest number of fragments in a short text
MaxText == 3

Texts ==
    Examples
    \cup {concat(fs) : fs \in UNION {[1..n -> Fragments] : n \in 0..MaxText}}

\* the conclusions a rule is built with when its premises are under test
Conclusions == {<<"τ">>, Lookup}

TypingInit ==
    /\ notation = 1
    /\ pc = "start"
    /\ loaded = None
    /\ spec_string = None
    /\ reloaded = None
    /\ grammar = Grammar_new
    /\ tokens = <<>>
    /\ pos = 0
    /\ stack = <<>>
    /\ ret = None
    /\ result = None
    /\ text \in Texts
    /\ call = "none"
    /\ output = None
    /\ calls = <<>>

\* the call of one function on text
Call(fn, value) ==
    /\ call = "none"
    /\ call' = fn
    /\ output' = Some(value)
    /\ UNCHANGED <<text, notation, pc, calls>>
    /\ UNCHANGED grammar_vars
    /\ UNCHANGED parser_vars

\* TypingRule::new(text, conclusion, "r")
NewRule ==
    \E conclusion \in Conclusions :
        Call("new", TypingRule_new(text, conclusion, <<"r">>))

\* TypingRule::parse_premise(text)
ParsePremise == Call("parse_premise", parse_premise(text))

\* TypingRule::parse_conclusion(text)
ParseConclusion == Call("parse_conclusion", parse_conclusion(text))

\* parse_judgement(text)
ParseJudgement == Call("parse_judgement", parse_judgement(text))

\* parse_type_relation(text)
ParseTypeRelation == Call("parse_type_relation", parse_type_relation(text))

\* parse_context_extensions(text)
ParseContextExtensions ==
    Call("parse_context_extensions", parse_context_extensions(text))

TypingNext ==
    \/ NewRule
    \/ ParsePremise
    \/ ParseConclusion
    \/ ParseJudgement
    \/ ParseTypeRelation
    \/ ParseContextExtensions

TypingSpec == TypingInit /\ [][TypingNext]_vars

(***************************************************************************)
(* The grammar between Grammar::load and Parser::new: its fields are       *)
(* public and add_typing_rule and add_special_token may be called on it.   *)
(***************************************************************************)

\* the largest number of calls made on a loaded grammar
MaxCalls == 2

RuleOf(name, premises, conclusion) ==
    [name |-> name, premises |-> premises, conclusion |-> conclusion]

\* the rules add_typing_rule is called with: the names `var` (which some
\* texts define) and `new`, each with two conclusions
Rules ==
    {RuleOf(<<"v", "a", "r">>, <<"x", " ", "ϵ", " ", "Γ">>, <<"Γ", "(", "x", ")">>),
     RuleOf(<<"v", "a", "r">>, <<>>, <<"τ">>),
     RuleOf(<<"n", "e", "w">>, <<>>, <<"τ">>),
     RuleOf(<<"n", "e", "w">>, <<>>, <<"σ">>)}

\* the tokens add_special_token is called with
Tokens == {<<"x">>, <<"+">>, <<"λ">>}

\* one call on the loaded grammar
Added(fn, arg, g) ==
    /\ pc = "loaded"
    /\ Len(calls) < MaxCalls
    /\ loaded' = Some(Ok(g))
    /\ calls' = Append(calls, [fn |-> fn, arg |-> arg])
    /\ UNCHANGED <<notation, pc, spec_string, reloaded, text, call, output>>
    /\ UNCHANGED parser_vars

\* grammar.add_typing_rule(rule)
AddTypingRule ==
    \E rule \in Rules :
        Added("add_typing_rule", rule, add_typing_rule(loaded[1].val[1], rule))

\* grammar.add_special_token(token)
AddSpecialToken ==
    \E token \in Tokens :
        Added("add_special_token", token, add_special_token(loaded[1].val[1], token))

BuilderNext ==
    \/ Load
    \/ AddTypingRule
    \/ AddSpecialToken

BuilderSpec == Init /\ [][BuilderNext]_vars

(***************************************************************************)
(* The properties.  They read the parser's state and, for "the symbols     *)
(* match from cursor p", the reference reading below: the cursor after the *)
(* symbols rhs[k..] are matched one after the other from p, each           *)
(* nonterminal by its first matching alternative; -1 when they do not      *)
(* match, -2 when matching them nests deeper than the stack holds.         *)
(***************************************************************************)

RECURSIVE cursor_after(_, _, _, _), cursor_after_nt(_, _, _, _)
cursor_after(rhs, k, p, depth) ==
    IF k > Len(rhs) THEN p
    ELSE IF p >= Len(tokens) THEN -1
    ELSE LET symbol == rhs[k]
             e == IF symbol.value \in DOMAIN grammar.productions
                  THEN (IF depth >= StackLimit
                        THEN -2
                        ELSE cursor_after_nt(symbol.value, 1, p, depth + 1))
                  ELSE IF terminal_matches(symbol, tokens[p + 1]) THEN p + 1 ELSE -1
         IN  IF e < 0 THEN e ELSE cursor_after(rhs, k + 1, e, depth)

cursor_after_nt(nt, i, p, depth) ==
    IF i > Len(grammar.productions[nt]) THEN -1
    ELSE LET e == cursor_after(grammar.productions[nt][i].rhs, 1, p, depth)
         IN  IF e = -1 THEN cursor_after_nt(nt, i + 1, p, depth) ELSE e

\* the elements of a Vec as a set
elements(v) == {v[i] : i \in 1..Len(v)}

\* C1: for every grammar g that Grammar::load builds from valid notation,
\* Grammar::load(g.to_spec_string()) succeeds and yields a grammar with the
\* same nonterminal keys, under each key the same ordered list of
\* productions (rule name and symbols with bindings), the same typing rule
\* under every rule name and the same set of special tokens.
C1_GrammarRoundTrip ==
    reloaded # None =>
        /\ reloaded[1].ok
        /\ LET g1 == loaded[1].val[1]
               g2 == reloaded[1].val[1]
           IN  /\ DOMAIN g2.productions = DOMAIN g1.productions
               /\ \A nt \in DOMAIN g1.productions :
                     g2.productions[nt] = g1.productions[nt]
               /\ DOMAIN g2.typing_rules = DOMAIN g1.typing_rules
               /\ \A name \in DOMAIN g1.typing_rules :
                     structured(g2.typing_rules[name]) = structured(g1.typing_rules[name])
               /\ elements(g2.special_tokens) = elements(g1.special_tokens)

\* the declared alternatives of nt
Alternatives(nt) ==
    IF nt \in DOMAIN grammar.productions THEN grammar.productions[nt] ELSE <<>>

\* the alternatives of nt that match from cursor p in a call nested `depth` deep
Matching(nt, p, depth) ==
    {i \in 1..Len(Alternatives(nt)) : cursor_after(Alternatives(nt)[i].rhs, 1, p, depth) >= 0}

\* the alternatives of the start nonterminal that match from 0 and consume every token
Complete(nt) ==
    {i \in 1..Len(Alternatives(nt)) :
        cursor_after(Alternatives(nt)[i].rhs, 1, 0, 1) = Len(tokens)}

\* the children of node are one per symbol of the production, in order: a
\* Terminal that the symbol matches, or a Nonterminal named by the symbol
BuiltFrom(node, production) ==
    /\ IsSome(node.children)
    /\ Len(node.children[1]) = Len(production.rhs)
    /\ \A k \in 1..Len(production.rhs) :
         LET child == node.children[1][k]
             symbol == production.rhs[k]
         IN  IF symbol.value \in DOMAIN grammar.productions
             THEN child.kind = "Nonterminal" /\ child.value = symbol.value
             ELSE child.kind = "Terminal" /\ terminal_matches(symbol, child.value)

\* a call of parse returned after tokenizing a non-empty input
ParseReturned == pc = "done" /\ ret # None

\* parse_symbol has returned to try_production
SymbolCallReturned == pc = "running" /\ ret # None

IsNonterminal(symbol) == symbol.value \in DOMAIN grammar.productions

Expr == <<"E", "x", "p", "r">>

Term == <<"T", "e", "r", "m">>

\* C2: parse returns Ok(root) only when some alternative of the start
\* nonterminal matches from cursor 0 and ends at the end of the tokens; root
\* is built from the first such alternative, is a Nonterminal named after the
\* start nonterminal and spans (0, number of tokens); when no alternative
\* consumes every token, parse returns "Unable to parse input completely".
C2_ParseReturnsFirstCompleteAlternative ==
    ParseReturned =>
        LET start == ret[1].symbol.value
            complete == Complete(start)
            root == result[1].val[1]
        IN  IF complete = {}
            THEN result = Some(Err("Unable to parse input completely"))
            ELSE /\ result[1].ok
                 /\ ret[1].alt = SetMin(complete)
                 /\ BuiltFrom(root, Alternatives(start)[SetMin(complete)])
                 /\ root.kind = "Nonterminal"
                 /\ root.value = start
                 /\ root.span = Some(SourceSpan(0, Len(tokens)))
                 /\ pos = Len(tokens)

\* C2 happens: parse returns the root of a later alternative after an
\* earlier one matched without consuming every token
C2_Witness ==
    /\ ParseReturned
    /\ result[1].ok
    /\ \E j \in 1..(ret[1].alt - 1) :
         cursor_after(Alternatives(ret[1].symbol.value)[j].rhs, 1, 0, 1)
             \in 0..(Len(tokens) - 1)

\* C3: parse_nonterminal(nt) called at cursor p returns the node of the
\* lowest-indexed alternative of nt that matches from p, and an activation
\* is at a later alternative only when all the earlier ones have failed from
\* its entry cursor: once one has matched, no later one is tried.
C3_FirstMatchingAlternativeWins ==
    /\ (SymbolCallReturned /\ ret[1].res.ok /\ IsNonterminal(ret[1].symbol)) =>
          LET nt == ret[1].symbol.value
              matching == Matching(nt, ret[1].entry, Len(stack) + 1)
              node == ret[1].res.val[1]
          IN  /\ matching # {}
              /\ ret[1].alt = SetMin(matching)
              /\ BuiltFrom(node, Alternatives(nt)[SetMin(matching)])
              /\ node.value = nt
              /\ pos = cursor_after(Alternatives(nt)[SetMin(matching)].rhs, 1,
                                    ret[1].entry, Len(stack) + 1)
    /\ \A d \in 1..Len(stack) :
          stack[d].fn = "parse_nonterminal" =>
              \A j \in 1..(stack[d].alt - 1) :
                  j <= Len(Alternatives(stack[d].nt))
                  => cursor_after(Alternatives(stack[d].nt)[j].rhs, 1, stack[d].entry, d) = -1

\* C3 happens: parse fails although the second alternative of a nonterminal
\* of the failing production, followed by the rest of that production, would
\* have consumed every token
C3_Witness ==
    /\ ParseReturned
    /\ ~result[1].ok
    /\ LET start == ret[1].symbol.value
       IN  \E i \in 1..Len(Alternatives(start)) :
             LET rhs == Alternatives(start)[i].rhs
             IN  /\ IsNonterminal(rhs[1])
                 /\ Len(Alternatives(rhs[1].value)) >= 2
                 /\ cursor_after(Alternatives(rhs[1].value)[1].rhs, 1, 0, 2) >= 0
                 /\ cursor_after(Alternatives(rhs[1].value)[2].rhs \o Tail(rhs), 1, 0, 2)
                        = Len(tokens)

\* C4: a failing call of parse_symbol or parse_nonterminal (terminal
\* mismatch, end of input, no matching alternative) returns with the cursor
\* where it was on entry, and at the head of its loop parse_nonterminal has
\* the cursor back at the position recorded before the failed alternative.
C4_FailureLeavesCursor ==
    /\ (SymbolCallReturned /\ ~ret[1].res.ok) => pos = ret[1].entry
    /\ (pc = "running" /\ Len(stack) > 0 /\ Top.fn = "parse_nonterminal" /\ Top.at = "for")
          => (pos = Top.initial_pos /\ pos = Top.entry)

\* C4 happens: parse_nonterminal returns an error after an alternative of
\* it had matched its first symbol and advanced the cursor
C4_Witness ==
    /\ SymbolCallReturned
    /\ ~ret[1].res.ok
    /\ IsNonterminal(ret[1].symbol)
    /\ \E i \in 1..Len(Alternatives(ret[1].symbol.value)) :
         cursor_after(<<Alternatives(ret[1].symbol.value)[i].rhs[1]>>, 1,
                      ret[1].entry, Len(stack) + 1) > ret[1].entry

\* the typing rule the grammar stores under the production's rule name
StoredRule(production) ==
    IF production.rule # None /\ production.rule[1] \in DOMAIN grammar.typing_rules
    THEN Some(grammar.typing_rules[production.rule[1]])
    ELSE None

\* C5: every Nonterminal node built from a production carries the typing
\* rule stored under the production's rule name, and none when the
\* production has no rule name or the name is not a key of typing_rules; an
\* unresolved rule name does not turn a successful parse into an error.
C5_TypingRuleAttached ==
    /\ (ret # None /\ ret[1].res.ok /\ ret[1].res.val[1].kind = "Nonterminal") =>
          ret[1].res.val[1].typing_rule
              = StoredRule(Alternatives(ret[1].symbol.value)[ret[1].alt])
    /\ (ParseReturned /\ Complete(ret[1].symbol.value) # {}) => result[1].ok

\* C5 happens: a successful parse whose tree holds a node of a production
\* with an unresolved rule name, without a rule, over nodes of a production
\* with a resolved rule name, with the rule
C5_Witness ==
    /\ ParseReturned
    /\ result[1].ok
    /\ \E c \in 1..Len(result[1].val[1].children[1]) :
         LET child == result[1].val[1].children[1][c]
         IN  /\ child.kind = "Nonterminal"
             /\ child.typing_rule = None
             /\ \E i \in 1..Len(Alternatives(child.value)) :
                  /\ Alternatives(child.value)[i].rule # None
                  /\ BuiltFrom(child, Alternatives(child.value)[i])
             /\ \E g \in 1..Len(child.children[1]) :
                  /\ child.children[1][g].kind = "Nonterminal"
                  /\ child.children[1][g].typing_rule # None

\* C6: every node carries the binding of the symbol occurrence that
\* produced it, whether the symbol names a nonterminal or a terminal.
C6_BindingOfSymbol ==
    (SymbolCallReturned /\ ret[1].res.ok) =>
        ret[1].res.val[1].binding = ret[1].symbol.binding

IsQuoted(value) == Len(value) >= 2 /\ value[1] = "'" /\ value[Len(value)] = "'"

IsSlashed(value) == Len(value) >= 2 /\ value[1] = "/" /\ value[Len(value)] = "/"

\* C7: a symbol whose value is not a key of productions is a terminal; a
\* single-quoted one matches iff the token equals the value without its
\* quotes, a bare one iff the token equals the value; a match returns a
\* Terminal node (the token, the symbol's binding, span (p, p+1), no
\* children, no typing rule) and moves the cursor to p+1; a mismatch returns
\* an error and leaves the cursor at p.
C7_TerminalMatching ==
    (SymbolCallReturned /\ ~IsNonterminal(ret[1].symbol) /\ ret[1].entry < Len(tokens)) =>
        LET symbol == ret[1].symbol
            p == ret[1].entry
            token == tokens[p + 1]
        IN  /\ IsQuoted(symbol.value) =>
                 (ret[1].res.ok <=> token = SubSeq(symbol.value, 2, Len(symbol.value) - 1))
            /\ (~IsQuoted(symbol.value) /\ ~IsSlashed(symbol.value)) =>
                 (ret[1].res.ok <=> token = symbol.value)
            /\ IF ret[1].res.ok
               THEN /\ ret[1].res.val[1] =
                        [kind |-> "Terminal", value |-> token,
                         span |-> Some(SourceSpan(p, p + 1)), children |-> None,
                         binding |-> symbol.binding, typing_rule |-> None]
                    /\ pos = p + 1
               ELSE pos = p

\* C7 happens: a quoted terminal with a token that equals it unquoted
C7_Witness ==
    /\ SymbolCallReturned
    /\ ret[1].res.ok
    /\ IsQuoted(ret[1].symbol.value)
    /\ ret[1].res.val[1].kind = "Terminal"

\* the start nonterminal of the call of parse under way or just returned
StartOfCall == IF pc = "running" THEN stack[1].nt ELSE ret[1].symbol.value

\* C8: parse starts from Expr when the grammar declares Expr, otherwise from
\* Term when it declares Term, otherwise from a declared nonterminal; the
\* root's value is the start nonterminal.
C8_StartNonterminal ==
    (pc = "running" \/ ParseReturned) =>
        /\ Expr \in DOMAIN grammar.productions => StartOfCall = Expr
        /\ (Expr \notin DOMAIN grammar.productions /\ Term \in DOMAIN grammar.productions)
              => StartOfCall = Term
        /\ DOMAIN grammar.productions # {} => StartOfCall \in DOMAIN grammar.productions
        /\ (ParseReturned /\ result[1].ok) => result[1].val[1].value = StartOfCall

\* C8 happens: a grammar that declares Expr and Term parses to a root Expr
C8_Witness ==
    /\ ParseReturned
    /\ result[1].ok
    /\ {Expr, Term} \subseteq DOMAIN grammar.productions
    /\ result[1].val[1].value = Expr

\* C9: no input makes parse abort: every call of parse on a grammar loaded
\* from notation ends by returning a tree or an error text.
C9_ParseNeverAborts == pc # "aborted"

LeftRecCase ==
    /\ Notations[notation].text = LeftRecNotation
    /\ pc \in {"running", "done", "aborted"}
    /\ tokens = <<<<"x">>>>

\* the tree of A ::= 'x' over the one token x
LeftRecTree ==
    [kind |-> "Nonterminal", value |-> <<"A">>, span |-> Some(SourceSpan(0, 1)),
     children |-> Some(<<[kind |-> "Terminal", value |-> <<"x">>,
                          span |-> Some(SourceSpan(0, 1)), children |-> None,
                          binding |-> None, typing_rule |-> None]>>),
     binding |-> None, typing_rule |-> None]

\* C10: for A ::= 'x' | A 'x' and the input "x", parse terminates and
\* returns the tree of the first alternative; the left-recursive second
\* alternative is never entered.
C10_LeftRecursionNotEntered ==
    /\ [](LeftRecCase =>
            /\ pc # "aborted"
            /\ \A d \in 1..Len(stack) : stack[d].alt = 1
            /\ ParseReturned => result = Some(Ok(LeftRecTree)))
    /\ ((LeftRecCase /\ pc = "running") ~> (LeftRecCase /\ ParseReturned))

\* C10 happens: the parse of "x" has returned its tree
C10_Witness == LeftRecCase /\ ParseReturned /\ result[1].ok

\* the STLC grammar is loaded and the tokens of "x y" are being or have been
\* parsed
StlcCase ==
    /\ Notations[notation].text = StlcNotation
    /\ pc \in {"running", "done", "aborted"}
    /\ tokens = <<<<"x">>, <<"y">>>>

\* C11: with the STLC grammar, parsing the two tokens of "x y" succeeds with
\* a root Term node whose only child is an Application node that carries the
\* app typing rule and has exactly two children, both BaseTerm nodes.
C11_StlcScenario ==
    StlcCase =>
        /\ pc # "aborted"
        /\ ParseReturned =>
             /\ result # None /\ result[1].ok
             /\ result[1].val[1].kind = "Nonterminal"
             /\ result[1].val[1].value = <<"T", "e", "r", "m">>
             /\ Len(result[1].val[1].children[1]) = 1
             /\ LET application == result[1].val[1].children[1][1]
                IN  /\ application.kind = "Nonterminal"
                    /\ application.value
                         = <<"A", "p", "p", "l", "i", "c", "a", "t", "i", "o", "n">>
                    /\ application.typing_rule # None
                    /\ application.typing_rule[1].name = <<"a", "p", "p">>
                    /\ application.typing_rule
                         = Some(grammar.typing_rules[<<"a", "p", "p">>])
                    /\ Len(application.children[1]) = 2
                    /\ \A c \in 1..2 :
                         /\ application.children[1][c].kind = "Nonterminal"
                         /\ application.children[1][c].value
                              = <<"B", "a", "s", "e", "T", "e", "r", "m">>

\* C11 happens: the parse of "x y" under the STLC grammar has returned
C11_Witness ==
    /\ StlcCase
    /\ ParseReturned
    /\ DOMAIN grammar.typing_rules
         = {<<"v", "a", "r">>, <<"l", "a", "m", "b", "d", "a">>, <<"a", "p", "p">>}

(***************************************************************************)
(* The parser of typing rules.                                             *)
(***************************************************************************)

\* the function was called on text and returned
Called(fn) == call = fn /\ output # None

\* the extension (variable, type)
Extension(variable, type_expr) == [variable |-> variable, type_expr |-> type_expr]

\* C12: the premises text "Γ,x:τ₁,y:τ₂ ⊢ e : σ" is kept as one premise, the
\* Judgment with the extensions (x, τ₁), (y, τ₂) in that order, the
\* expression e and the type σ.
C12_PremisesSplitAtTopLevelCommas ==
    (Called("new") /\ text = JudgmentWithExtensions) =>
        /\ output[1].ok
        /\ Len(output[1].val[1].premises) = 1
        /\ output[1].val[1].premises[1].kind = "Judgment"
        /\ output[1].val[1].premises[1].judgment
             = [extensions |-> <<Extension(<<"x">>, <<"τ", "₁">>),
                                 Extension(<<"y">>, <<"τ", "₂">>)>>,
                expression |-> <<"e">>,
                type_expr |-> <<"σ">>]

\* some character of the text is a relation symbol
HasRelationSymbol(s) == \E i \in 1..Len(s) : s[i] \in RELATION_SYMBOLS

\* C13: a premise is classified judgment before membership before relation:
\* with a turnstile it is parsed as a type judgment, also when it holds ∈
\* or a relation symbol; otherwise with ∈ as a membership; otherwise with a
\* relation symbol as a type relation; otherwise it fails with the
\* "Unknown premise format" error.
C13_PremiseClassification ==
    Called("parse_premise") =>
        IF contains(text, <<"⊢">>)
        THEN output[1].ok => output[1].val[1].kind = "Judgment"
        ELSE IF contains(text, <<"ϵ">>)
        THEN output[1].ok => output[1].val[1].kind = "Membership"
        ELSE IF HasRelationSymbol(text)
        THEN output[1].ok => output[1].val[1].kind = "TypeRelation"
        ELSE ~output[1].ok /\ output[1].err = "Unknown premise format: {}"

\* the index of the first relation symbol of the text, 0 if it has none
FirstRelationSymbol(s) ==
    IF HasRelationSymbol(s)
    THEN SetMin({i \in 1..Len(s) : s[i] \in RELATION_SYMBOLS})
    ELSE 0

\* the index of the last character of the run of relation symbols that begins at i
RunEnd(s, i) ==
    SetMax({j \in i..Len(s) : \A k \in i..j : s[k] \in RELATION_SYMBOLS})

\* the text before the first run of relation symbols, the text after it, and the run
AroundFirstRun(s, i, j) ==
    <<trim(SubSeq(s, 1, i - 1)), trim(SubSeq(s, j + 1, Len(s))), SubSeq(s, i, j)>>

\* the relation read as the claim has it: Err without a relation symbol or
\* with an empty side
FirstRunRelation(s, i) ==
    IF i = 0 THEN FALSE
    ELSE /\ AroundFirstRun(s, i, RunEnd(s, i))[1] # <<>>
         /\ AroundFirstRun(s, i, RunEnd(s, i))[2] # <<>>

\* C14: parse_type_relation returns the first maximal run of relation
\* symbols as the relation, the trimmed text before it as left and the
\* trimmed text after it as right; it fails without a relation symbol and
\* with an empty side, so that a successful result has neither side empty.
C14_TypeRelationScan ==
    Called("parse_type_relation") =>
        /\ output[1].ok = FirstRunRelation(text, FirstRelationSymbol(text))
        /\ output[1].ok =>
             /\ output[1].val[1]
                  = AroundFirstRun(text, FirstRelationSymbol(text),
                                   RunEnd(text, FirstRelationSymbol(text)))
             /\ output[1].val[1][1] # <<>>
             /\ output[1].val[1][2] # <<>>

\* the pieces of a context after its base are blank or var:type
ExtensionsWellShaped(pieces) ==
    \A i \in 2..Len(pieces) :
        trim(pieces[i]) = <<>> \/ Len(split(trim(pieces[i]), <<":">>)) = 2

\* the context is Γ, optionally followed by comma-separated var:type extensions
ContextWellShaped(pieces) ==
    trim(pieces[1]) = <<"Γ">> /\ ExtensionsWellShaped(pieces)

\* context ⊢ expression : type, on the parts of the text split at the turnstile
JudgmentWellShaped(parts) ==
    /\ Len(parts) = 2
    /\ ContextWellShaped(split(trim(parts[1]), <<",">>))
    /\ Len(split(parts[2], <<":">>)) = 2

\* the call has returned a judgment
JudgmentAccepted ==
    \/ Called("parse_judgement") /\ output[1].ok
    \/ /\ Called("parse_premise") \/ Called("parse_conclusion")
       /\ output[1].ok
       /\ output[1].val[1].kind = "Judgment"

\* C15: a type judgment, as premise or as conclusion, is accepted only when
\* the text left of its single turnstile is Γ, optionally followed by
\* comma-separated var:type extensions, and the text right of it splits at
\* ':' into exactly an expression and a type.
C15_JudgmentValidation ==
    JudgmentAccepted => JudgmentWellShaped(split(text, <<"⊢">>))

\* the piece is not blank
NonBlank(piece) == trim(piece) # <<>>

\* the (variable, type) of a piece var:type
PairOf(halves) == Extension(trim(halves[1]), trim(halves[2]))

\* the (variable, type) pairs of the pieces after the base, in their order
PairsOf(later) ==
    [i \in 1..Len(later) |-> PairOf(split(trim(later[i]), <<":">>))]

\* C16: parse_context_extensions fails when the first comma-separated piece
\* is not Γ and when a later piece that is not blank does not split at ':'
\* into exactly two parts; otherwise it returns the base Γ and the
\* (variable, type) pairs of the later pieces in their textual order.  The
\* pieces are taken without the blanks around them.
C16_ContextExtensions ==
    Called("parse_context_extensions") =>
        /\ output[1].ok = ContextWellShaped(split(trim(text), <<",">>))
        /\ output[1].ok =>
             output[1].val[1]
               = <<<<"Γ">>,
                   PairsOf(SelectSeq(Tail(split(trim(text), <<",">>)), NonBlank))>>
        /\ text = <<"x", ":", "τ">> => ~output[1].ok
        /\ text = <<"Γ", ",", "x">> => ~output[1].ok
        /\ text = <<"Γ">> => output[1].ok /\ output[1].val[1][2] = <<>>
        /\ text = TwoExtensions =>
             /\ output[1].ok
             /\ output[1].val[1][2] = <<Extension(<<"x">>, <<"τ", "₁">>),
                                        Extension(<<"y">>, <<"τ", "₂">>)>>

\* C16 happens: parse_context_extensions has returned the two pairs of
\* "Γ,x:τ₁,y:τ₂"
C16_Witness ==
    /\ Called("parse_context_extensions")
    /\ text = TwoExtensions
    /\ Len(output[1].val) = 1

\* the text is Γ(name): Γ, an opening parenthesis, a name without
\* parentheses and a closing parenthesis
MatchesLookup(s) ==
    /\ Len(s) >= 3
    /\ s[1] = "Γ" /\ s[2] = "(" /\ s[Len(s)] = ")"
    /\ \A i \in 3..(Len(s) - 1) : s[i] \notin {"(", ")"}

\* alphanumerics, underscore, the arrow, the lambda, subscript digits and the
\* type variable, with the blanks that separate them in "τ₁ → τ₂"
TypeGlyphs ==
    Letters \cup Digits
    \cup {"_", "→", "λ", "τ", "₀", "₁", "₂", "₃", "₄", "₅", "₆", "₇", "₈", "₉", " "}

WellFormedType(s) == Len(s) > 0 /\ \A i \in 1..Len(s) : s[i] \in TypeGlyphs

\* the outcome of the call is that of parse_judgement on the text
AsJudgment(s, r) ==
    /\ r.ok = parse_judgement(s).ok
    /\ r.ok => /\ r.val[1].kind = "Judgment"
               /\ r.val[1].judgment = parse_judgement(s).val[1]

\* the three forms of a conclusion, tried in order
ConclusionForms(s, r) ==
    IF MatchesLookup(s)
    THEN /\ r.ok
         /\ r.val[1].kind = "ContextLookup"
         /\ r.val[1].var = SubSeq(s, 3, Len(s) - 1)
    ELSE IF contains(s, <<"⊢">>)
    THEN AsJudgment(s, r)
    ELSE IF WellFormedType(s)
    THEN r.ok /\ r.val[1].kind = "TypeValue" /\ r.val[1].value = s
    ELSE ~r.ok

\* C17: a conclusion Γ(name) becomes ContextLookup(name); otherwise a
\* conclusion with a turnstile is parsed as a judgment; otherwise a
\* well-formed type expression, such as "τ₁ → τ₂", becomes a TypeValue;
\* every other conclusion fails with an error.
C17_ConclusionForms ==
    Called("parse_conclusion") =>
        /\ ConclusionForms(trim(text), output[1])
        /\ text = ArrowType =>
             output[1].ok /\ output[1].val[1].kind = "TypeValue"

(***************************************************************************)
(* Inference-rule blocks and production blocks of Grammar::load.           *)
(***************************************************************************)

\* the text that was loaded
Loaded == pc = "loaded" /\ loaded # None /\ loaded[1].ok

\* the lines of a block hold dashes and no production
IsRuleBlock(lines) ==
    /\ \E i \in 1..Len(lines) : contains(lines[i], Dashes)
    /\ \A i \in 1..Len(lines) : ~contains(lines[i], DefinedAs)

\* the inference-rule blocks of a text, each as its lines without comments
RuleBlocks(input) ==
    {lines \in {block_lines(input_blocks(input)[b]) :
                    b \in 1..Len(input_blocks(input))} : IsRuleBlock(lines)}

\* the index of the dashed separator
Separator(lines) == SetMin({i \in 1..Len(lines) : contains(lines[i], Dashes)})

\* the rule holds every line before the separator in its premises and the
\* line after the separator as its conclusion
HoldsBlock(rule, lines, d) ==
    /\ \A i \in 1..(d - 1) : contains(rule.premises, lines[i])
    /\ d < Len(lines)
    /\ rule.conclusion = lines[d + 1]

\* C18: of an inference-rule block, all the lines before the dashed separator
\* that are not comments form the premises of the rule, none of them
\* dropped, and the line right after the separator is its conclusion.
C18_RuleBlockPremises ==
    Loaded =>
        \A lines \in RuleBlocks(Notations[notation].text) :
            \E name \in DOMAIN loaded[1].val[1].typing_rules :
                HoldsBlock(loaded[1].val[1].typing_rules[name], lines,
                           Separator(lines))

\* the positions of the "(" of a parenthesised name that ends the line
TrailingOpenings(line) ==
    {i \in 1..(Len(line) - 2) :
        /\ line[i] = "("
        /\ line[Len(line)] = ")"
        /\ \A j \in (i + 1)..(Len(line) - 1) : line[j] # ")"}

\* the line, blanks at its end aside, ends with a name in parentheses
HasTrailingName(line) == TrailingOpenings(trim_end(line)) # {}

\* the name in the parentheses that end the line
TrailingName(line) ==
    trim(SubSeq(trim_end(line), SetMin(TrailingOpenings(trim_end(line))) + 1,
                Len(trim_end(line)) - 1))

\* a conclusion line follows the separator, and the separator or else the
\* conclusion line carries a name
Named(lines, d) ==
    /\ d < Len(lines)
    /\ HasTrailingName(lines[d]) \/ HasTrailingName(lines[d + 1])

\* the name of the rule of a block: that of the separator if it carries one,
\* otherwise that of the conclusion line
RuleName(lines, d) ==
    IF HasTrailingName(lines[d]) THEN TrailingName(lines[d])
    ELSE TrailingName(lines[d + 1])

\* Grammar::load has returned on a text with inference-rule blocks
LoadReturned ==
    /\ pc \in {"loaded", "load_failed"}
    /\ loaded # None
    /\ RuleBlocks(Notations[notation].text) # {}

\* C19: the name of a rule is taken from the parentheses that trail the
\* dashed separator and, when the separator carries none, from those that
\* trail the conclusion line; loading fails exactly when neither line
\* carries a name or no conclusion line follows the separator, and then
\* returns no grammar.
C19_RuleNameExtraction ==
    LoadReturned =>
        /\ loaded[1].ok
             = \A lines \in RuleBlocks(Notations[notation].text) :
                   Named(lines, Separator(lines))
        /\ loaded[1].ok =>
             \A lines \in RuleBlocks(Notations[notation].text) :
                 RuleName(lines, Separator(lines))
                     \in DOMAIN loaded[1].val[1].typing_rules
        /\ ~loaded[1].ok => loaded[1].val = <<>>

\* the lines of the production blocks of a text, comments aside, in their order
RECURSIVE ProductionLines(_)
ProductionLines(blocks) ==
    IF Len(blocks) = 0 THEN <<>>
    ELSE (IF \E i \in 1..Len(block_lines(Head(blocks))) :
                 contains(block_lines(Head(blocks))[i], DefinedAs)
          THEN block_lines(Head(blocks))
          ELSE <<>>) \o ProductionLines(Tail(blocks))

\* the name of a left-hand side Name or Name(rule)
LhsName(lhs) ==
    IF contains(lhs, <<"(">>) THEN trim(SubSeq(lhs, 1, find(lhs, <<"(">>) - 1))
    ELSE trim(lhs)

\* the rule name of a left-hand side Name(rule), none for Name
LhsRule(lhs) ==
    IF contains(lhs, <<"(">>) /\ ends_with(trim(lhs), <<")">>)
    THEN Some(trim(SubSeq(trim(lhs), find(trim(lhs), <<"(">>) + 1, Len(trim(lhs)) - 1)))
    ELSE None

\* the alternatives written on a line, left to right, under a left-hand side
AlternativesOn(lhs, alts) ==
    [i \in 1..Len(alts) |-> [nt |-> LhsName(lhs), rule |-> LhsRule(lhs), alt |-> alts[i]]]

\* the alternatives of the lines from line i on, in textual order; lhs is
\* the left-hand side of the `::=` line that the line i may continue
RECURSIVE Written(_, _, _)
Written(lines, i, lhs) ==
    IF i > Len(lines) THEN <<>>
    ELSE IF contains(lines[i], DefinedAs)
    THEN AlternativesOn(splitn2(lines[i], DefinedAs)[1],
                        SelectSeq(map(split(splitn2(lines[i], DefinedAs)[2], <<"|">>), trim),
                                  NonEmpty))
         \o Written(lines, i + 1, Some(splitn2(lines[i], DefinedAs)[1]))
    ELSE IF lhs # None /\ starts_with(lines[i], <<"|">>)
    THEN AlternativesOn(lhs[1], SelectSeq(map(split(lines[i], <<"|">>), trim), NonEmpty))
         \o Written(lines, i + 1, lhs)
    ELSE Written(lines, i + 1, None)

\* the productions of a nonterminal as the text writes them
WrittenFor(written, nt) ==
    [i \in 1..Len(SelectSeq(written, LAMBDA w : w.nt = nt)) |->
        [rule |-> SelectSeq(written, LAMBDA w : w.nt = nt)[i].rule,
         rhs |-> parse_rhs_alt(SelectSeq(written, LAMBDA w : w.nt = nt)[i].alt)]]

\* the productions of the grammar are those the text writes, in its order
InTextualOrder(g, written) ==
    /\ DOMAIN g.productions = {written[i].nt : i \in 1..Len(written)}
    /\ \A nt \in DOMAIN g.productions : g.productions[nt] = WrittenFor(written, nt)

\* C20: loading keeps the textual order of the alternatives: productions[N]
\* lists the alternatives of a `::=` line left to right, then those of its
\* `|` continuation lines top to bottom, then those of any later `::=` line
\* of the same name, each with the rule name of its own `::=` line, none if
\* that line has none.
C20_AlternativeOrder ==
    Loaded =>
        /\ InTextualOrder(loaded[1].val[1],
                          Written(ProductionLines(input_blocks(Notations[notation].text)),
                                  1, None))
        /\ Notations[notation].text = TwoRulesNotation =>
             [i \in 1..3 |-> loaded[1].val[1].productions[<<"T", "e", "r", "m">>][i].rule]
                 = <<Some(<<"o", "n", "e">>), Some(<<"t", "w", "o">>),
                     Some(<<"t", "w", "o">>)>>
        /\ Notations[notation].text = ChoiceNotation =>
             /\ Len(loaded[1].val[1].productions[<<"A">>]) = 2
             /\ Len(loaded[1].val[1].productions[<<"A">>][1].rhs) = 1
             /\ Len(loaded[1].val[1].productions[<<"A">>][2].rhs) = 2
             /\ loaded[1].val[1].productions[<<"A">>][2].rule = None

\* C20 happens: a text with a continuation line, or with two `::=` lines of
\* one name, has been loaded
C20_Witness ==
    /\ Loaded
    /\ Notations[notation].text \in {ChoiceNotation, TwoRulesNotation}
    /\ \E nt \in DOMAIN loaded[1].val[1].productions :
           Len(loaded[1].val[1].productions[nt]) >= 2

(***************************************************************************)
(* The typing rules and the special tokens of a grammar.                   *)
(***************************************************************************)

\* the inference-rule blocks of a text in their order, each as its lines
RuleBlockSeq(input) == SelectSeq(map(input_blocks(input), block_lines), IsRuleBlock)

\* the rule an inference-rule block adds: the name that trails its separator,
\* the line before the separator and the line after it
BlockRule(lines) ==
    RuleOf(TrailingName(lines[Separator(lines)]),
           IF Separator(lines) > 1 THEN lines[Separator(lines) - 1] ELSE <<>>,
           lines[Separator(lines) + 1])

\* the rules add_typing_rule was called with, in the order of the calls
CalledRules ==
    map(SelectSeq(calls, LAMBDA c : c.fn = "add_typing_rule"), LAMBDA c : c.arg)

\* every rule added so far: those of the blocks, then those of the calls
AddedRules == map(RuleBlockSeq(Notations[notation].text), BlockRule) \o CalledRules

\* the last rule of a sequence of added rules under a name
LastAdded(added, name) ==
    added[SetMax({i \in 1..Len(added) : added[i].name = name})]

\* the rule is the one that was added: its name, its conclusion and the line
\* of premises next to the separator
SameRule(rule, added) ==
    /\ rule.name = added.name
    /\ rule.conclusion = added.conclusion
    /\ contains(rule.premises, added.premises)

\* the typing rules are those of the last additions under each name
LastAdditions(typing_rules, added) ==
    /\ DOMAIN typing_rules = {added[i].name : i \in 1..Len(added)}
    /\ \A name \in DOMAIN typing_rules :
           /\ typing_rules[name].name = name
           /\ SameRule(typing_rules[name], LastAdded(added, name))

\* C21: the names of the typing rules are unique keys: after any loaded
\* rule blocks and any calls of add_typing_rule the grammar holds a rule
\* for exactly the names that were added, each stored rule has the name it
\* is stored under, and the rule under a name is the last one added with
\* that name, whatever was added under other names.
C21_RuleNamesAreKeys ==
    Loaded =>
        \A added \in {AddedRules} :
            LastAdditions(loaded[1].val[1].typing_rules, added)

\* a name is added twice, the second time with another conclusion
AddedTwice(added) ==
    \E i, j \in 1..Len(added) :
        /\ i < j
        /\ added[i].name = added[j].name
        /\ added[i].conclusion # added[j].conclusion

\* C21 happens: a rule was added by a call under a name that was added
\* before with another conclusion
C21_Witness ==
    /\ Loaded
    /\ Len(CalledRules) > 0
    /\ \E added \in {AddedRules} :
           /\ AddedTwice(added)
           /\ added[Len(added)].name \in {added[i].name : i \in 1..(Len(added) - 1)}

\* the tokens of the right-hand sides of a text, in textual order
RhsTokens(input) ==
    concat(map(Written(ProductionLines(input_blocks(input)), 1, None),
               LAMBDA w : split_whitespace(w.alt)))

\* a token between two single quotes or between two double quotes
IsQuotedToken(token) ==
    /\ Len(token) >= 2
    /\ token[1] \in {"'", "\""}
    /\ token[Len(token)] = token[1]

\* the token without the quotes around it
Unquoted(token) == SubSeq(token, 2, Len(token) - 1)

\* the tokens add_special_token was called with, in the order of the calls
CalledTokens ==
    map(SelectSeq(calls, LAMBDA c : c.fn = "add_special_token"), LAMBDA c : c.arg)

\* the elements of a sequence in the order of their first appearance
FirstAppearances(seq) ==
    [k \in 1..Cardinality({seq[i] : i \in 1..Len(seq)}) |->
        seq[Nth({i \in 1..Len(seq) : \A j \in 1..(i - 1) : seq[j] # seq[i]}, k)]]

\* the quoted tokens of the text without their quotes, then the tokens of
\* the calls
RegisteredTokens ==
    map(SelectSeq(RhsTokens(Notations[notation].text), IsQuotedToken), Unquoted)
        \o CalledTokens

\* C22: the special tokens are an ordered set: after a load and any calls
\* of add_special_token, special_tokens lists every single-quoted or
\* double-quoted token of every right-hand side without its quotes, then
\* every token of the calls, each once, in the order of first appearance.
C22_SpecialTokensOrderedSet ==
    Loaded =>
        \A registered \in {RegisteredTokens} :
            loaded[1].val[1].special_tokens = FirstAppearances(registered)

(***************************************************************************)
(* The tree a parse returns.                                               *)
(***************************************************************************)

\* C23: the tree round trip: the canonical text of every tree a successful
\* parse returns is parsed back to a tree that ast_eq finds equal to it:
\* same kind, value and binding, and pairwise equal children in the same
\* order, whatever the spans and the typing rules.
C23_TreeRoundTrip ==
    pc = "decoded" =>
        /\ output[1].ok
        /\ ast_eq(output[1].val[1], result[1].val[1])
        /\ ast_eq(result[1].val[1], output[1].val[1])

\* C23 happens: a tree with a binding, a typing rule and a Nonterminal child
\* went through the round trip, and so did a token with a double quote
C23_Witness ==
    /\ pc = "decoded"
    /\ \/ /\ IsSome(result[1].val[1].typing_rule)
          /\ \E i \in 1..Len(result[1].val[1].children[1]) :
                 /\ result[1].val[1].children[1][i].kind = "Nonterminal"
                 /\ IsSome(result[1].val[1].children[1][i].children[1][1].binding)
       \/ \E i \in 1..Len(result[1].val[1].children[1]) :
              /\ result[1].val[1].children[1][i].kind = "Terminal"
              /\ contains(result[1].val[1].children[1][i].value, <<"\"">>)

\* parse returned the error
Rejected(message) == pc = "done" /\ result = Some(Err(message))

\* C24: an input without tokens and an input the tokenizer rejects are
\* turned down before any production is tried: parse returns "Empty input"
\* exactly when the tokenizer yields no token and "Tokenization failed" when
\* it rejects the input, with no tree; a call that tries a production has
\* at least one token.
C24_EmptyOrUntokenizable ==
    /\ pc = "running" => Len(tokens) > 0
    /\ Rejected("Empty input") => Len(tokens) = 0 /\ ret = None /\ stack = <<>>
    /\ Rejected("Tokenization failed") => ret = None /\ stack = <<>>
    /\ pc = "done" /\ result[1].ok => Len(tokens) > 0 /\ ret # None
    /\ pc = "done" /\ Len(tokens) = 0 =>
           Rejected("Empty input") \/ Rejected("Tokenization failed")
    /\ pc = "done" /\ ret = None =>
           Rejected("Empty input") \/ Rejected("Tokenization failed")

\* C24 happens: parse turned down an input without tokens on a grammar that
\* has productions
C24_Witness ==
    /\ Rejected("Empty input")
    /\ DOMAIN grammar.productions # {}
    /\ tokens = <<>>

\* what a Parser that has made no call yet builds for a symbol at cursor p
\* in a call nested `depth` deep, from the grammar and the tokens alone
RECURSIVE fresh_children(_, _, _, _)
RECURSIVE fresh_node(_, _, _)
fresh_child(symbol, p, depth) ==
    IF symbol.value \in DOMAIN grammar.productions
    THEN fresh_node(symbol.value, p, depth + 1)
    ELSE TerminalNode(tokens[p + 1], symbol, p)

fresh_children(rhs, k, p, depth) ==
    IF k > Len(rhs) THEN <<>>
    ELSE <<fresh_child(rhs[k], p, depth)>>
             \o fresh_children(rhs, k + 1, cursor_after(<<rhs[k]>>, 1, p, depth), depth)

fresh_built(nt, p, depth, production) ==
    NonterminalNode(nt, SourceSpan(p, cursor_after(production.rhs, 1, p, depth)),
                    fresh_children(production.rhs, 1, p, depth), production)

fresh_node(nt, p, depth) ==
    fresh_built(nt, p, depth, Alternatives(nt)[SetMin(Matching(nt, p, depth))])

\* what such a Parser returns for the tokens when it starts from start_nt
fresh_parse(start_nt) ==
    IF Complete(start_nt) = {}
    THEN Err("Unable to parse input completely")
    ELSE Ok(fresh_built(start_nt, 0, 1, Alternatives(start_nt)[SetMin(Complete(start_nt))]))

\* the grammar of a Parser stays as it is
GrammarUnchanged == pc \in {"idle", "running", "done"} => grammar' = grammar

\* C25 as stated: whatever calls were made before on the Parser, a call of
\* parse returns the one result that a Parser newly built from the same
\* grammar returns for the input, and no call changes the grammar.
C25_ParserReuse ==
    ParseReturned => \A start_nt \in start_nts : result[1] = fresh_parse(start_nt)

\* C25 amended: whatever calls were made before on the Parser, a call of
\* parse returns what a Parser newly built from the same grammar returns
\* for the input when it picks the same start nonterminal, and no call
\* changes the grammar.
C25_ParserReuseFromStart ==
    /\ [](ParseReturned => result[1] = fresh_parse(ret[1].symbol.value))
    /\ [](pc = "done" /\ ret = None =>
             result[1] \in {Err("Tokenization failed"), Err("Empty input")})
    /\ [][GrammarUnchanged]_vars

\* C25 happens: a Parser that had parsed tokens before was given an input
\* the tokenizer rejects, and a Parser returned a tree with several children
C25_Witness ==
    \/ /\ Rejected("Tokenization failed")
       /\ Len(tokens) > 0
       /\ pos > 0
    \/ /\ ParseReturned
       /\ result[1].ok
       /\ Len(result[1].val[1].children[1]) >= 2
       /\ pos = Len(tokens)

\* the Terminal leaves of a tree, left to right
RECURSIVE leaves(_)
leaves(node) ==
    IF node.kind = "Terminal" THEN <<node>>
    ELSE concat([i \in 1..Len(node.children[1]) |-> leaves(node.children[1][i])])

\* the leaves are the tokens, one leaf per token, each at its index
YieldIs(ls, ts) ==
    /\ Len(ls) = Len(ts)
    /\ \A i \in 1..Len(ls) :
           /\ ls[i].value = ts[i]
           /\ ls[i].span = Some(SourceSpan(i - 1, i))

\* parse returned a tree
ParsedTree == pc = "done" /\ result # None /\ result[1].ok

\* C26: the yield of a tree is the input: the values of the Terminal leaves
\* of every tree parse returns, read left to right, are the tokens of the
\* input, each token once, and the leaf of token i has the span (i, i + 1).
C26_YieldEqualsInput ==
    ParsedTree => \A ls \in {leaves(result[1].val[1])} : YieldIs(ls, tokens)

\* C26 happens: a tree over several tokens has a leaf below a Nonterminal
\* child of the root
C26_Witness ==
    /\ ParsedTree
    /\ Len(tokens) >= 2
    /\ \E i \in 1..Len(result[1].val[1].children[1]) :
           /\ result[1].val[1].children[1][i].kind = "Nonterminal"
           /\ Len(result[1].val[1].children[1][i].children[1]) >= 1

\* the nodes of a tree
RECURSIVE nodes(_)
nodes(node) ==
    {node} \cup (IF node.kind = "Terminal" THEN {}
                 ELSE UNION {nodes(node.children[1][i]) : i \in 1..Len(node.children[1])})

\* the spans of the children lie end to start from s to e
Tiling(children, s, e) ==
    /\ children[1].span[1].start = s
    /\ \A i \in 2..Len(children) :
           children[i].span[1].start = children[i - 1].span[1].end
    /\ children[Len(children)].span[1].end = e

\* the span of the node is in order and its children tile it
SpanTiled(node) ==
    /\ IsSome(node.span)
    /\ node.span[1].start <= node.span[1].end
    /\ (node.kind = "Nonterminal" /\ Len(node.children[1]) > 0) =>
           Tiling(node.children[1], node.span[1].start, node.span[1].end)

\* C27: the spans tile: every node of a tree parse returns has a span with
\* start <= end, and the children of a Nonterminal node built from a
\* non-empty alternative cover its span without gap or overlap: the first
\* starts where the node starts, each later one where the one before it
\* ends, and the last ends where the node ends.
C27_SpansTile ==
    ParsedTree => \A node \in nodes(result[1].val[1]) : SpanTiled(node)

\* C27 happens: a Nonterminal node below the root has several children and
\* does not start at the first token
C27_Witness ==
    /\ ParsedTree
    /\ \E node \in nodes(result[1].val[1]) :
           /\ node.kind = "Nonterminal"
           /\ node.span[1].start > 0
           /\ Len(node.children[1]) >= 1
    /\ \E node \in nodes(result[1].val[1]) :
           /\ node.kind = "Nonterminal"
           /\ node # result[1].val[1]
           /\ Len(node.children[1]) >= 2

\* the cursors at which the activations of the call under way began
EntryCursors == {stack[i].entry : i \in 1..Len(stack)}

\* parse_symbol has read the token at the cursor: it reports a Terminal node
\* or a mismatch, or calls parse_nonterminal
TokenRead ==
    \/ Len(stack') > Len(stack)
    \/ /\ ret = None /\ ret' # None
       /\ \/ ret'[1].res.ok /\ ret'[1].res.val[1].kind = "Terminal"
          \/ ~ret'[1].res.ok /\ ret'[1].res.err = "Expected '{}', found '{}'"

\* one step of a call of parse moves the cursor by one token that a
\* terminal matches, or back to a cursor at which an activation began
CursorStep ==
    pc = "running" =>
        /\ pos' > pos =>
               /\ pos' = pos + 1
               /\ ret'[1].res.ok
               /\ ret'[1].res.val[1].kind = "Terminal"
               /\ ret'[1].res.val[1].value = tokens[pos + 1]
        /\ pos' < pos => pos' \in EntryCursors
        /\ TokenRead => pos < Len(tokens)

Leftmost(nt) ==
    {Alternatives(nt)[i].rhs[1].value :
        i \in {j \in 1..Len(Alternatives(nt)) : Len(Alternatives(nt)[j].rhs) > 0}}
    \cap DOMAIN grammar.productions

\* the nonterminals reached from those of S by up to n more leftmost steps
RECURSIVE LeftClosure(_, _)
LeftClosure(S, n) ==
    IF n = 0 THEN S
    ELSE CHOOSE closed \in {LeftClosure(T, n - 1) :
                               T \in {S \cup UNION {Leftmost(nt) : nt \in S}}} : TRUE

\* the nonterminals nt reaches as the leftmost symbol, directly or through
\* other nonterminals
LeftReach(nt) == LeftClosure(Leftmost(nt), Cardinality(DOMAIN grammar.productions))

LeftRecursive == \E nt \in DOMAIN grammar.productions : nt \in LeftReach(nt)

\* parse_symbol calls parse_nonterminal
Descent == pc = "running" /\ Len(stack') = Len(stack) + 1

\* the call is made at a greater cursor than the caller began at, or for the
\* leftmost symbol at the same cursor, and then for a nonterminal that does
\* not reach the caller's as a leftmost symbol
DescentDecreases ==
    (Descent /\ ~LeftRecursive) =>
        \/ pos > Top.entry
        \/ /\ pos = Top.entry
           /\ Top.k = 1
           /\ stack'[Len(stack')].nt \in Leftmost(Top.nt)
           /\ Top.nt \notin LeftReach(stack'[Len(stack')].nt)

IsProductionBlock(block) ==
    \E i \in 1..Len(block_lines(block)) : contains(block_lines(block)[i], DefinedAs)

\* the lines from line i on that hold `::=` or are a `|` continuation
\* directly following such a line; following tells whether line i - 1 was
\* one of them
RECURSIVE ProductionLinesOf(_, _, _)
ProductionLinesOf(lines, i, following) ==
    IF i > Len(lines) THEN <<>>
    ELSE IF contains(lines[i], DefinedAs)
    THEN <<lines[i]>> \o ProductionLinesOf(lines, i + 1, TRUE)
    ELSE IF following /\ starts_with(lines[i], <<"|">>)
    THEN <<lines[i]>> \o ProductionLinesOf(lines, i + 1, TRUE)
    ELSE ProductionLinesOf(lines, i + 1, FALSE)

\* a production block without the lines that are none of its productions
ProductionsOnly(block) ==
    join(ProductionLinesOf(block_lines(block), 1, FALSE), <<"\n">>)

\* the production blocks of a text, each without its other lines
ProductionText(input) ==
    join(map(SelectSeq(input_blocks(input), IsProductionBlock), ProductionsOnly),
         <<"\n", "\n">>)

\* the inference-rule blocks of a text
RuleText(input) ==
    join(SelectSeq(input_blocks(input),
                   LAMBDA block : IsRuleBlock(block_lines(block))),
         <<"\n", "\n">>)

\* the grammar g holds the productions and special tokens that the
\* production lines alone give, and the typing rules that the
\* inference-rule blocks alone give
ClassifiedAs(g, of_productions, of_rules) ==
    /\ of_productions.ok
    /\ of_productions.val[1] = [g EXCEPT !.typing_rules = Grammar_new.typing_rules]
    /\ of_rules.ok
    /\ of_rules.val[1].typing_rules = g.typing_rules
    /\ of_rules.val[1].productions = Grammar_new.productions

\* C30: block classification is exclusive and `::=` takes precedence: a
\* block with a `::=` line contributes only productions, every other line of
\* it that is not a `|` continuation directly following a production line
\* is skipped without error; a block without `::=` adds at most one typing
\* rule, named on its first dashed line; a block with neither adds nothing.
C30_BlockClassification ==
    Loaded =>
        /\ \A of_productions \in {Grammar_load(ProductionText(Notations[notation].text))} :
           \A of_rules \in {Grammar_load(RuleText(Notations[notation].text))} :
               ClassifiedAs(loaded[1].val[1], of_productions, of_rules)
        /\ Cardinality(DOMAIN loaded[1].val[1].typing_rules)
               <= Len(RuleBlockSeq(Notations[notation].text))
        /\ \A name \in DOMAIN loaded[1].val[1].typing_rules :
               \E lines \in RuleBlocks(Notations[notation].text) :
                   TrailingName(lines[Separator(lines)]) = name

\* C30 happens: a text is loaded whose blocks are a production block with a
\* dashed line and a `|` line that continues nothing, a block with neither
\* `::=` nor dashes, and an inference-rule block with two dashed lines
C30_Witness ==
    /\ Loaded
    /\ \E b \in 1..Len(input_blocks(Notations[notation].text)) :
         \E lines \in {block_lines(input_blocks(Notations[notation].text)[b])} :
           /\ \E i \in 1..Len(lines) : contains(lines[i], DefinedAs)
           /\ \E i \in 1..Len(lines) : contains(lines[i], Dashes)
           /\ starts_with(lines[Len(lines)], <<"|">>)
           /\ ~starts_with(lines[Len(lines) - 1], <<"|">>)
           /\ ~contains(lines[Len(lines) - 1], DefinedAs)
    /\ \E b \in 1..Len(input_blocks(Notations[notation].text)) :
         \E lines \in {block_lines(input_blocks(Notations[notation].text)[b])} :
           /\ Len(lines) > 0
           /\ \A i \in 1..Len(lines) :
                  ~contains(lines[i], DefinedAs) /\ ~contains(lines[i], Dashes)
    /\ \E lines \in RuleBlocks(Notations[notation].text) :
           Cardinality({i \in 1..Len(lines) : contains(lines[i], Dashes)}) > 1

====
